---- MODULE Spec2Model ----
(***************************************************************************)
(* Model of the live-match payload normalizer of the cricket dashboard     *)
(* (pages/Live_Match.py): the safe nested-get, the format classifier, the  *)
(* overs conversion, the innings selector and the payload flattener.       *)
(*                                                                         *)
(* JSON documents are tagged values: null, bool, int, float, str, list,    *)
(* map.  A text is a sequence of one-character strings, so that upper-     *)
(* casing, substring tests, splitting and parsing are computed and not     *)
(* assumed.  A Python exception leaving a function is the value            *)
(* Raise(kind).  Numbers produced by overs_to_float are exact rationals    *)
(* counted in units of 1/Unit.                                             *)
(***************************************************************************)
EXTENDS Integers, Sequences, FiniteSets, TLC

VARIABLES
    info,       \* guess_format: the matchInfo document
    fmt,        \* guess_format: its result
    overs,      \* overs_to_float: the argument
    ovf,        \* overs_to_float: its result
    score,      \* pick_current_innings: the score document
    t1s,        \* pick_current_innings: team 1 tag
    t2s,        \* pick_current_innings: team 2 tag
    cur,        \* pick_current_innings: its result
    root,       \* collect_matches: the listing document
    flat,       \* collect_matches: its result
    innings,    \* show_innings: the innings record
    shown,      \* show_innings: its result
    xin,        \* _extract_extras: the innings record
    xout,       \* _extract_extras: its result
    chosen,     \* match details: the info and score of the chosen match
    snap,       \* match details: the derived fields of the live snapshot
    now,        \* application: the clock, in seconds
    cache,      \* application: the entries of st.cache_data
    API_KEY,    \* application: the RAPIDAPI_KEY of the environment
    table,      \* application: the rows of the players table
    edit,       \* application: st.session_state["_edit_player"]
    server,     \* application: how the API answers in this behaviour
    run,        \* application: what the last interaction did and showed
    nruns,      \* application: the button presses on the pages of the store
    session,    \* shared store: each browser session's edit state and running handler
    effect,     \* shared store: what the last handler step sent to the store and changed
    choice      \* selector: the position the user picks in the match selector

\* the variables of the score renderer and of the extras normalizer
renderVars == <<innings, shown, xin, xout>>

\* the variables of the match details
snapVars == <<chosen, snap>>

\* the variables of the running application
appVars == <<now, cache, API_KEY, server, table, edit, run, nruns, session, effect, choice>>

vars ==
    <<info, fmt, overs, ovf, score, t1s, t2s, cur, root, flat,
                   renderVars, snapVars, appVars>>

-----------------------------------------------------------------------------
(* Bounds of the model *)

\* longest list drawn for a list-valued field of an input document
MaxList == 2

\* longest overs text drawn as an argument of overs_to_float
MaxText == 4

-----------------------------------------------------------------------------
(* JSON values and the Python operations the code applies to them *)

None == [t |-> "null"]
BoolV(b) == [t |-> "bool", v |-> b]
IntV(n) == [t |-> "int", v |-> n]
\* a float with one decimal digit, held in tenths: FloatV(123) is 12.3
FloatV(d) == [t |-> "float", v |-> d]
StrV(s) == [t |-> "str", v |-> s]
ListV(s) == [t |-> "list", v |-> s]
MapV(f) == [t |-> "map", v |-> f]

\* a variable of a function that the specification at hand does not call
Unset == [t |-> "unset"]
\* a function that has not returned yet
Pending == [t |-> "pending"]
\* a function that returned the value v
Ret(v) == [t |-> "ret", v |-> v]
\* an exception propagating out of a function
Raise(kind) == [t |-> "raise", exc |-> kind]

IsRaise(x) == x.t = "raise"
IsDict(x) == x.t = "map"
IsList(x) == x.t = "list"
IsStr(x) == x.t = "str"
\* isinstance(x, (int, float)): bool is a subclass of int
IsNumber(x) == x.t \in {"int", "float", "bool"}

EmptyDict == MapV(<<>>)
EmptyList == ListV(<<>>)

\* the key of a mapping literal that is left out of the mapping
Absent == [t |-> "absent"]

\* the mapping holding the fields of record r that are not Absent
MkMap(r) == MapV([k \in {x \in DOMAIN r : r[x] # Absent} |-> r[k]])

\* bool(x)
Truthy(x) ==
    CASE x.t = "null" -> FALSE
      [] x.t = "bool" -> x.v
      [] x.t = "int" -> x.v # 0
      [] x.t = "float" -> x.v # 0
      [] x.t = "str" -> Len(x.v) > 0
      [] x.t = "list" -> Len(x.v) > 0
      [] x.t = "map" -> DOMAIN x.v # {}

\* a or b
Or(a, b) == IF Truthy(a) THEN a ELSE b

\* k in d, for a dict d
HasKey(d, k) == k \in DOMAIN d.v

\* d.get(k, dflt), for a dict d
GetOr(d, k, dflt) == IF HasKey(d, k) THEN d.v[k] ELSE dflt

\* d.get(k), for a dict d
Get(d, k) == GetOr(d, k, None)

-----------------------------------------------------------------------------
(* Texts: sequences of one-character strings *)

DigitSeq == <<"0", "1", "2", "3", "4", "5", "6", "7", "8", "9">>
Digits == {DigitSeq[i] : i \in DOMAIN DigitSeq}
DigitVal(c) == (CHOOSE i \in DOMAIN DigitSeq : DigitSeq[i] = c) - 1

UpperOf ==
    [a |-> "A", b |-> "B", c |-> "C", d |-> "D", e |-> "E", f |-> "F",
     g |-> "G", h |-> "H", i |-> "I", j |-> "J", k |-> "K", l |-> "L",
     m |-> "M", n |-> "N", o |-> "O", p |-> "P", q |-> "Q", r |-> "R",
     s |-> "S", t |-> "T", u |-> "U", v |-> "V", w |-> "W", x |-> "X",
     y |-> "Y", z |-> "Z"]

\* s.upper()
Upper(s) == [i \in DOMAIN s |-> IF s[i] \in DOMAIN UpperOf THEN UpperOf[s[i]] ELSE s[i]]

\* p in s, for texts
Contains(s, p) ==
    \E i \in 1..(Len(s) - Len(p) + 1) : SubSeq(s, i, i + Len(p) - 1) = p

\* the decimal digits of a natural number
RECURSIVE NatText(_)
NatText(n) ==
    IF n < 10 THEN <<DigitSeq[n + 1]>>
    ELSE NatText(n \div 10) \o <<DigitSeq[(n % 10) + 1]>>

\* str(n) for an int
IntText(n) == IF n < 0 THEN <<"-">> \o NatText(-n) ELSE NatText(n)

\* str(x) for a float held in tenths
FloatText(d) ==
    LET a == IF d < 0 THEN -d ELSE d
    IN  (IF d < 0 THEN <<"-">> ELSE <<>>)
            \o NatText(a \div 10) \o <<".">> \o NatText(a % 10)

RECURSIVE PyRepr(_)
RECURSIVE JoinRepr(_)
\* ", ".join(repr(e) for e in xs)
JoinRepr(xs) ==
    IF Len(xs) = 0 THEN <<>>
    ELSE IF Len(xs) = 1 THEN PyRepr(xs[1])
    ELSE PyRepr(xs[1]) \o <<",", " ">> \o JoinRepr(Tail(xs))

\* repr(x); of the mappings only the empty one is printed by the model
PyRepr(x) ==
    CASE x.t = "null" -> <<"N", "o", "n", "e">>
      [] x.t = "bool" ->
            IF x.v THEN <<"T", "r", "u", "e">> ELSE <<"F", "a", "l", "s", "e">>
      [] x.t = "int" -> IntText(x.v)
      [] x.t = "float" -> FloatText(x.v)
      [] x.t = "str" -> <<"'">> \o x.v \o <<"'">>
      [] x.t = "list" -> <<"[">> \o JoinRepr(x.v) \o <<"]">>
      [] x = EmptyDict -> <<"{", "}">>

\* str(x), also what an f-string prints for x
PyStr(x) == IF x.t = "str" THEN x.v ELSE PyRepr(x)

\* the text consists of an optional sign and at least one digit
IsSignedDigits(s) ==
    LET body == IF Len(s) > 0 /\ s[1] = "-" THEN Tail(s) ELSE s
    IN  Len(body) > 0 /\ \A i \in DOMAIN body : body[i] \in Digits

RECURSIVE DigitsValue(_)
DigitsValue(s) ==
    IF Len(s) = 0 THEN 0
    ELSE 10 * DigitsValue(SubSeq(s, 1, Len(s) - 1)) + DigitVal(s[Len(s)])

\* the integer a signed-digits text denotes
SignedValue(s) == IF s[1] = "-" THEN -DigitsValue(Tail(s)) ELSE DigitsValue(s)

\* the positions of the separator in s
SepAt(s, sep) == {i \in DOMAIN s : s[i] = sep}

\* s.split(sep), for a one-character separator
RECURSIVE Split(_, _)
Split(s, sep) ==
    IF SepAt(s, sep) = {} THEN <<s>>
    ELSE LET i == CHOOSE j \in SepAt(s, sep) : \A k \in SepAt(s, sep) : j <= k
         IN  <<SubSeq(s, 1, i - 1)>> \o Split(SubSeq(s, i + 1, Len(s)), sep)

-----------------------------------------------------------------------------
(* g: the safe nested get (Live_Match.py 43-50) *)

RECURSIVE g(_, _, _)
g(d, ks, default) ==
    IF Len(ks) = 0 THEN d
    ELSE IF ~IsDict(d) \/ ~HasKey(d, Head(ks)) THEN default
    ELSE g(d.v[Head(ks)], Tail(ks), default)

-----------------------------------------------------------------------------
(* guess_format (Live_Match.py 67-82) *)

TEST == <<"T", "E", "S", "T">>
ODI == <<"O", "D", "I">>
T20 == <<"T", "2", "0">>
UNKNOWN == <<"U", "N", "K", "N", "O", "W", "N">>
NoTag == <<>>

\* the three substring tests applied to an upper-cased text, in the code's order
TagIn(u) ==
    IF Contains(u, TEST) THEN TEST
    ELSE IF Contains(u, ODI) THEN ODI
    ELSE IF Contains(u, T20) THEN T20
    ELSE NoTag

\* what one field contributes: its tag, or NoTag when it is no string or has none
FieldTag(d, k) ==
    LET s == Get(d, k) IN IF IsStr(s) THEN TagIn(Upper(s.v)) ELSE NoTag

LoopFields == <<"matchDesc", "stateTitle", "seriesName">>

\* the loop over matchDesc, stateTitle, seriesName
RECURSIVE ScanFields(_, _, _)
ScanFields(d, ks, fallback) ==
    IF Len(ks) = 0 THEN fallback
    ELSE IF FieldTag(d, Head(ks)) # NoTag THEN FieldTag(d, Head(ks))
    ELSE ScanFields(d, Tail(ks), fallback)

\* faulty variant: matchDesc is inspected before matchFormat
GuessFormatMutOrder(i) ==
    LET d == Or(i, EmptyDict)
    IN  IF ~IsDict(d) THEN Raise("AttributeError")
        ELSE Ret(ScanFields(d, <<"matchDesc", "matchFormat", "stateTitle", "seriesName">>,
                            UNKNOWN))

guess_format(i) ==
    LET d == Or(i, EmptyDict)
    IN  IF ~IsDict(d) THEN Raise("AttributeError")
        ELSE IF FieldTag(d, "matchFormat") # NoTag
             THEN Ret(FieldTag(d, "matchFormat"))
             ELSE Ret(ScanFields(d, LoopFields, UNKNOWN))

-----------------------------------------------------------------------------
(* overs_to_float (Live_Match.py 84-96) *)

\* results are exact rationals counted in units of 1/Unit
BallsPerOver == 6
Unit == BallsPerOver * 10

\* -1.0
Sentinel == -Unit

\* float(x) for a number
FloatOf(x) ==
    CASE x.t = "bool" -> (IF x.v THEN Unit ELSE 0)
      [] x.t = "int" -> x.v * Unit
      [] x.t = "float" -> x.v * (Unit \div 10)

\* the body of the try block; any exception in it gives the sentinel
OversOfText(s) ==
    IF Contains(s, <<".">>)
    THEN LET parts == Split(s, ".")
         IN  IF Len(parts) # 2 THEN Sentinel
             ELSE IF ~IsSignedDigits(parts[1]) \/ ~IsSignedDigits(parts[2]) THEN Sentinel
             ELSE SignedValue(parts[1]) * Unit
                    + SignedValue(parts[2]) * (Unit \div BallsPerOver)
    ELSE IF IsSignedDigits(s) THEN SignedValue(s) * Unit ELSE Sentinel

\* faulty variant: the part behind the point is read as tenths, not as balls
OversToFloatMutDecimal(x) ==
    IF x = None THEN Sentinel
    ELSE IF IsNumber(x) THEN FloatOf(x)
    ELSE LET s == PyStr(x)
         IN  IF Contains(s, <<".">>) /\ Len(Split(s, ".")) = 2
                /\ IsSignedDigits(Split(s, ".")[1]) /\ IsSignedDigits(Split(s, ".")[2])
             THEN SignedValue(Split(s, ".")[1]) * Unit
                    + SignedValue(Split(s, ".")[2]) * (Unit \div 10)
             ELSE OversOfText(s)

overs_to_float(x) ==
    IF x = None THEN Sentinel
    ELSE IF IsNumber(x) THEN FloatOf(x)
    ELSE OversOfText(PyStr(x))

-----------------------------------------------------------------------------
(* pick_current_innings (Live_Match.py 116-148) *)

\* the one-character text of the em dash, the "unknown" placeholder
DASH == <<"emdash">>

\* x == n in Python, for an int n: 1, 1.0 and True are all equal to 1
PyEqInt(x, n) ==
    CASE x.t = "int" -> x.v = n
      [] x.t = "float" -> x.v = 10 * n
      [] x.t = "bool" -> (IF x.v THEN 1 ELSE 0) = n
      [] OTHER -> FALSE

\* one entry of cands: (overs_to_float(inn.get("overs")), bt, inn)
Cand(bt, inn) == [key |-> overs_to_float(Get(inn, "overs")), bt |-> bt, inn |-> inn]

\* g(score, team, inngs) or {}
TeamInnings(s, team, inngs) == Or(g(s, <<team, inngs>>, None), EmptyDict)

\* the list the first loop walks, in its order
TeamPairs(s, a, b) ==
    << <<a, TeamInnings(s, "team1Score", "inngs2")>>,
       <<b, TeamInnings(s, "team2Score", "inngs2")>>,
       <<a, TeamInnings(s, "team1Score", "inngs1")>>,
       <<b, TeamInnings(s, "team2Score", "inngs1")>> >>

\* the first loop: a truthy innings is appended; inn.get fails on a non-mapping
RECURSIVE TeamCands(_)
TeamCands(pairs) ==
    IF Len(pairs) = 0 THEN Ret(<<>>)
    ELSE LET bt == pairs[1][1]
             inn == pairs[1][2]
             rest == TeamCands(Tail(pairs))
         IN  IF ~Truthy(inn) THEN rest
             ELSE IF ~IsDict(inn) THEN Raise("AttributeError")
             ELSE IF IsRaise(rest) THEN rest
             ELSE Ret(<<Cand(bt, inn)>> \o rest.v)

\* bt = t1s if bt_id == 1 else (t2s if bt_id == 2 else None)
BatTeamOf(inn, a, b) ==
    LET bt_id == Get(inn, "batTeamId")
    IN  IF PyEqInt(bt_id, 1) THEN a ELSE IF PyEqInt(bt_id, 2) THEN b ELSE None

\* the second loop, over inningsScoreList: every mapping is appended
RECURSIVE ListCands(_, _, _)
ListCands(isl, a, b) ==
    IF Len(isl) = 0 THEN <<>>
    ELSE IF ~IsDict(Head(isl)) THEN ListCands(Tail(isl), a, b)
    ELSE <<Cand(BatTeamOf(Head(isl), a, b), Head(isl))>> \o ListCands(Tail(isl), a, b)

\* cands as it stands before the sort, or the exception raised while building it
Candidates(s, a, b) ==
    LET tc == TeamCands(TeamPairs(s, a, b))
    IN  IF IsRaise(tc) THEN tc
        ELSE IF ~IsDict(s) THEN Raise("AttributeError")
        ELSE LET isl == Get(s, "inningsScoreList")
             IN  IF IsList(isl) THEN Ret(tc.v \o ListCands(isl.v, a, b)) ELSE tc

\* c goes behind every entry whose key is not lower than its own
RECURSIVE InsertDesc(_, _)
InsertDesc(sorted, c) ==
    IF Len(sorted) = 0 THEN <<c>>
    ELSE IF Head(sorted).key >= c.key THEN <<Head(sorted)>> \o InsertDesc(Tail(sorted), c)
    ELSE <<c>> \o sorted

RECURSIVE SortFrom(_, _)
SortFrom(sorted, todo) ==
    IF Len(todo) = 0 THEN sorted ELSE SortFrom(InsertDesc(sorted, Head(todo)), Tail(todo))

\* faulty variant of the sort: c goes in front of every entry whose key is not
\* higher than its own, so a later entry overtakes an earlier one of equal key
RECURSIVE InsertDescUnstable(_, _)
InsertDescUnstable(sorted, c) ==
    IF Len(sorted) = 0 THEN <<c>>
    ELSE IF Head(sorted).key > c.key
         THEN <<Head(sorted)>> \o InsertDescUnstable(Tail(sorted), c)
    ELSE <<c>> \o sorted

RECURSIVE SortFromUnstable(_, _)
SortFromUnstable(sorted, todo) ==
    IF Len(todo) = 0 THEN sorted
    ELSE SortFromUnstable(InsertDescUnstable(sorted, Head(todo)), Tail(todo))

SortDescMutUnstable(cands) == SortFromUnstable(<<>>, cands)

\* faulty variant of the sort: ascending
SortDescMutAscending(cands) ==
    LET d == SortFrom(<<>>, cands) IN [i \in DOMAIN d |-> d[Len(d) + 1 - i]]

\* cands.sort(key=lambda x: x[0], reverse=True): stable, descending
SortDesc(cands) == SortFrom(<<>>, cands)

\* the three values returned
Picked(bat, bowl, inn) == [bat |-> bat, bowl |-> bowl, inn |-> inn]

\* faulty variant: the batting team is returned as the bowling team
BowlTeamMutSame(bat_team, a, b) == IF bat_team = a THEN a ELSE b

\* bowl_team = t2s if bat_team == t1s else t1s
BowlTeam(bat_team, a, b) == IF bat_team = a THEN b ELSE a

\* return "-", "-", {} with the em dash
PickNoCands(a, b) == Picked(StrV(DASH), StrV(DASH), EmptyDict)

pick_current_innings(s, a, b) ==
    LET cands == Candidates(s, a, b)
    IN  IF IsRaise(cands) THEN cands
        ELSE IF Len(cands.v) = 0 THEN Ret(PickNoCands(a, b))
        ELSE LET first == SortDesc(cands.v)[1]
                 bowl_team == BowlTeam(first.bt, a, b)
             IN  Ret(Picked(Or(first.bt, StrV(DASH)),
                            Or(bowl_team, StrV(DASH)),
                            Or(first.inn, EmptyDict)))

-----------------------------------------------------------------------------
(* collect_matches (Live_Match.py 161-186) *)

\* the keys of a mapping, as one-character texts, in some order
RECURSIVE KeySeq(_)
KeySeq(ks) ==
    IF ks = {} THEN <<>>
    ELSE LET k == CHOOSE x \in ks : TRUE IN <<StrV(<<k>>)>> \o KeySeq(ks \ {k})

\* what "for x in v" walks: the elements of a list, the characters of a string,
\* the keys of a mapping; a number, a bool or None is not iterable
Iter(x) ==
    CASE x.t = "list" -> Ret(x.v)
      [] x.t = "str" -> Ret([i \in DOMAIN x.v |-> StrV(<<x.v[i]>>)])
      [] x.t = "map" -> Ret(KeySeq(DOMAIN x.v))
      [] OTHER -> Raise("TypeError")

VS == <<" ", "v", "s", " ">>
SEP == <<" ", "emdash", " ">>
TEAM1 == <<"T", "e", "a", "m", " ", "1">>
TEAM2 == <<"T", "e", "a", "m", " ", "2">>
SERIES == <<"S", "e", "r", "i", "e", "s">>

\* faulty variant: the short name is preferred to the full name
TeamLabelMutShortFirst(i, team, placeholder) ==
    Or(Or(g(i, <<team, "teamSName">>, None), g(i, <<team, "teamName">>, None)),
       StrV(placeholder))

\* g(info, team, "teamName") or g(info, team, "teamSName") or placeholder
TeamLabel(i, team, placeholder) ==
    Or(Or(g(i, <<team, "teamName">>, None), g(i, <<team, "teamSName">>, None)),
       StrV(placeholder))

\* f"{t1} vs {t2} - {series_name} ({fmt})" with the em dash
Label(t1, t2, series_name, f) ==
    PyStr(t1) \o VS \o PyStr(t2) \o SEP \o PyStr(series_name)
        \o <<" ", "(">> \o f \o <<")">>

\* the body of the innermost loop for one element m of matches
MatchEntry(m, series_name) ==
    IF ~IsDict(m) THEN Raise("AttributeError")
    ELSE LET i == Or(Get(m, "matchInfo"), EmptyDict)
             sc == Or(Get(m, "matchScore"), EmptyDict)
         IN  IF ~IsDict(i) THEN Raise("AttributeError")
             ELSE LET f == guess_format(i).v
                  IN  Ret([label |-> Label(TeamLabel(i, "team1", TEAM1),
                                           TeamLabel(i, "team2", TEAM2),
                                           series_name, f),
                           match_id |-> Get(i, "matchId"),
                           series |-> series_name,
                           format |-> f,
                           info |-> i,
                           score |-> sc])

\* for m in (wrap.get("matches") or [])
RECURSIVE MatchLoop(_, _)
MatchLoop(ms, series_name) ==
    IF Len(ms) = 0 THEN Ret(<<>>)
    ELSE LET e == MatchEntry(Head(ms), series_name)
         IN  IF IsRaise(e) THEN e
             ELSE LET rest == MatchLoop(Tail(ms), series_name)
                  IN  IF IsRaise(rest) THEN rest ELSE Ret(<<e.v>> \o rest.v)

\* the body of the middle loop for one element s of seriesMatches
SeriesEntry(s) ==
    IF ~IsDict(s) THEN Raise("AttributeError")
    ELSE LET wrap == Get(s, "seriesAdWrapper")
         IN  IF ~IsDict(wrap) THEN Ret(<<>>)
             ELSE LET ms == Iter(Or(Get(wrap, "matches"), EmptyList))
                  IN  IF IsRaise(ms) THEN ms
                      ELSE MatchLoop(ms.v, GetOr(wrap, "seriesName", StrV(SERIES)))

\* for s in (bucket.get("seriesMatches") or [])
RECURSIVE SeriesLoop(_)
SeriesLoop(ss) ==
    IF Len(ss) = 0 THEN Ret(<<>>)
    ELSE LET e == SeriesEntry(Head(ss))
         IN  IF IsRaise(e) THEN e
             ELSE LET rest == SeriesLoop(Tail(ss))
                  IN  IF IsRaise(rest) THEN rest ELSE Ret(e.v \o rest.v)

\* the body of the outer loop for one element bucket of typeMatches
BucketEntry(bucket) ==
    IF ~IsDict(bucket) THEN Raise("AttributeError")
    ELSE LET ss == Iter(Or(Get(bucket, "seriesMatches"), EmptyList))
         IN  IF IsRaise(ss) THEN ss ELSE SeriesLoop(ss.v)

\* faulty variant: only the last bucket is walked
BucketLoopMutKeepLast(bs) ==
    IF Len(bs) = 0 THEN Ret(<<>>) ELSE BucketEntry(bs[Len(bs)])

\* for bucket in (root.get("typeMatches") or [])
RECURSIVE BucketLoop(_)
BucketLoop(bs) ==
    IF Len(bs) = 0 THEN Ret(<<>>)
    ELSE LET e == BucketEntry(Head(bs))
         IN  IF IsRaise(e) THEN e
             ELSE LET rest == BucketLoop(Tail(bs))
                  IN  IF IsRaise(rest) THEN rest ELSE Ret(e.v \o rest.v)

collect_matches(r) ==
    IF ~IsDict(r) THEN Raise("AttributeError")
    ELSE LET bs == Iter(Or(Get(r, "typeMatches"), EmptyList))
         IN  IF IsRaise(bs) THEN bs ELSE BucketLoop(bs.v)

-----------------------------------------------------------------------------
(* Input documents *)

\* every text over alphabet A of length at most n
TextsUpTo(A, n) == UNION {[1..k -> A] : k \in 0..n}

\* every list over the set E of length at most n
ListsUpTo(E, n) == {ListV(l) : l \in TextsUpTo(E, n)}

IND == <<"I", "N", "D">>
AUS == <<"A", "U", "S">>
INDIA == <<"I", "n", "d", "i", "a">>
AUSTRALIA == <<"A", "u", "s", "t", "r", "a", "l", "i", "a">>
IPL == <<"I", "P", "L">>
JUNK == <<"x">>
ODI_ONE_DAYER == <<"O", "D", "I", " ", "o", "n", "e", "-", "d", "a", "y", "e", "r">>
T20_BLAST == <<"T", "2", "0", " ", "B", "l", "a", "s", "t">>
LOWER_TEST == <<"t", "e", "s", "t">>
FINAL == <<"F", "i", "n", "a", "l">>
T20_THEN_TEST == <<"t", "2", "0", " ", "T", "e", "s", "t">>
TWELVE_3 == <<"1", "2", ".", "3">>

(* guess_format: every combination of the four fields *)
FormatFieldVals ==
    {Absent, None, IntV(20), StrV(<<>>), StrV(ODI_ONE_DAYER), StrV(T20_BLAST),
     StrV(LOWER_TEST), StrV(FINAL), StrV(T20_THEN_TEST)}

FormatInfos ==
    {MkMap([matchFormat |-> a, matchDesc |-> b, stateTitle |-> c, seriesName |-> d]) :
        a \in FormatFieldVals, b \in FormatFieldVals,
        c \in {Absent, IntV(20), StrV(LOWER_TEST), StrV(FINAL)},
        d \in {Absent, StrV(T20_BLAST), StrV(FINAL)}}

(* overs_to_float: None, numbers, containers, and every short text *)
OversAlphabet == {"0", "1", "2", "3", ".", "-", "x"}

OversArgs ==
    {None, BoolV(TRUE), BoolV(FALSE), IntV(0), IntV(20), IntV(-2), FloatV(123),
     FloatV(0), EmptyList, EmptyDict, ListV(<<FloatV(15)>>), ListV(<<IntV(7)>>)}
        \cup {StrV(s) : s \in TextsUpTo(OversAlphabet, MaxText)}

(* pick_current_innings *)
\* an innings record; runs tells the records of different places apart
InnRec(o, id) == MkMap([overs |-> o, runs |-> IntV(id)])

\* what a second-innings place holds: nothing, an empty or malformed record, or a
\* record whose overs is missing, unparsable, text, float or int
SlotVals(id) ==
    {Absent, EmptyDict, StrV(JUNK)}
        \cup {InnRec(o, id) : o \in {Absent, StrV(TWELVE_3), FloatV(125), IntV(20)}}

\* a first-innings place in the same documents
SlotFirst(id) ==
    {Absent, StrV(JUNK)}
        \cup {InnRec(o, id) : o \in {Absent, StrV(TWELVE_3), IntV(20)}}

\* a team-score place in the documents that vary inningsScoreList
SlotFew(id) == {Absent, InnRec(StrV(TWELVE_3), id)}

TeamScore(i1, i2) ==
    IF i1 = Absent /\ i2 = Absent THEN Absent ELSE MkMap([inngs1 |-> i1, inngs2 |-> i2])

ScoreDoc(a1, a2, b1, b2, isl) ==
    MkMap([team1Score |-> TeamScore(a1, a2), team2Score |-> TeamScore(b1, b2),
           inningsScoreList |-> isl])

IslEntry(id, o, n) == MkMap([batTeamId |-> id, overs |-> o, runs |-> IntV(n)])

\* an element of inningsScoreList: no mapping, an empty mapping, or an innings
\* whose batTeamId is 1, True, 2, or neither
IslEntries ==
    {IntV(7), EmptyDict, IslEntry(BoolV(TRUE), IntV(20), 30),
     IslEntry(IntV(1), StrV(TWELVE_3), 30), IslEntry(IntV(2), StrV(TWELVE_3), 30),
     IslEntry(IntV(2), IntV(20), 30), IslEntry(IntV(3), IntV(20), 30)}

IslFew ==
    {Absent, StrV(JUNK), ListV(<<IslEntry(IntV(2), StrV(TWELVE_3), 30)>>),
     ListV(<<IslEntry(IntV(3), IntV(20), 30)>>)}

\* a score as collect_matches hands it on: m.get("matchScore") or {}
ScoreDocs ==
    {StrV(JUNK), IntV(5), ListV(<<IntV(1)>>)}
        \cup {ScoreDoc(a1, a2, b1, b2, isl) :
                a1 \in SlotFirst(11), a2 \in SlotVals(12),
                b1 \in SlotFirst(21), b2 \in SlotVals(22), isl \in IslFew}
        \cup {ScoreDoc(a1, a2, b1, b2, isl) :
                a1 \in SlotFew(11), a2 \in SlotFew(12),
                b1 \in SlotFew(21), b2 \in SlotFew(22),
                isl \in ListsUpTo(IslEntries, MaxList)}

\* the team tags the page passes: teamSName or the display name, never empty
TeamTagPairs ==
    {<<StrV(IND), StrV(AUS)>>, <<StrV(IND), StrV(IND)>>, <<StrV(DASH), StrV(AUS)>>,
     <<StrV(IND), StrV(DASH)>>}

(* collect_matches *)
TeamDoc(full, short) == MkMap([teamName |-> StrV(full), teamSName |-> StrV(short)])

GoodInfo(id) ==
    MkMap([matchId |-> IntV(id), team1 |-> TeamDoc(INDIA, IND),
           team2 |-> MkMap([teamSName |-> StrV(AUS)]), matchFormat |-> StrV(ODI)])

GoodScore(id) == ScoreDoc(InnRec(StrV(TWELVE_3), id), Absent, Absent, Absent, Absent)

GoodMatch(id) == MkMap([matchInfo |-> GoodInfo(id), matchScore |-> GoodScore(id)])

\* an element of matches: well-formed, empty, no mapping, or with a matchInfo
\* or matchScore that is no mapping
MatchElems ==
    {GoodMatch(1), GoodMatch(2), EmptyDict, None,
     MkMap([matchInfo |-> StrV(JUNK), matchScore |-> GoodScore(4)]),
     MkMap([matchInfo |-> GoodInfo(5), matchScore |-> StrV(JUNK)])}

MatchesVals ==
    {Absent, None, IntV(5), StrV(JUNK)} \cup ListsUpTo(MatchElems, MaxList)

Wrapper(name, ms) == MkMap([seriesName |-> name, matches |-> ms])

SeriesOf(wrap) == MkMap([seriesAdWrapper |-> wrap])
BucketOf(ss) == MkMap([seriesMatches |-> ss])
RootOf(bs) == MkMap([typeMatches |-> bs])

\* the document holding one wrapper
RootOfWrapper(wrap) == RootOf(ListV(<<BucketOf(ListV(<<SeriesOf(wrap)>>))>>))

\* documents that vary what lies under one wrapper
DeepRoots ==
    {RootOfWrapper(Wrapper(n, ms)) : n \in {Absent, StrV(IPL)}, ms \in MatchesVals}
        \cup {RootOfWrapper(w) : w \in {StrV(JUNK), None}}

\* an element of seriesMatches: no mapping, no wrapper, a wrapper that is no
\* mapping, or a wrapper with one or two matches
SeriesElems ==
    {IntV(3), EmptyDict, SeriesOf(StrV(JUNK)),
     SeriesOf(Wrapper(StrV(IPL), ListV(<<GoodMatch(1)>>))),
     SeriesOf(Wrapper(Absent, ListV(<<GoodMatch(2), GoodMatch(3)>>)))}

\* documents that vary seriesMatches under one bucket
MidRoots ==
    {RootOf(ListV(<<BucketOf(ss)>>)) :
        ss \in {Absent, None, IntV(5), StrV(JUNK)} \cup ListsUpTo(SeriesElems, MaxList)}

\* an element of typeMatches: no mapping, no seriesMatches, or one or two series
BucketElems ==
    {None, EmptyDict,
     BucketOf(ListV(<<SeriesOf(Wrapper(StrV(IPL), ListV(<<GoodMatch(4)>>)))>>)),
     BucketOf(ListV(<<SeriesOf(Wrapper(Absent, ListV(<<GoodMatch(5), GoodMatch(6)>>))),
                      SeriesOf(Wrapper(StrV(IPL), ListV(<<GoodMatch(7)>>)))>>))}

\* documents that vary typeMatches
WideRoots == {RootOf(bs) : bs \in ListsUpTo(BucketElems, MaxList)}

\* documents whose top level is not the expected one; the page passes
\* "data or {}", so a root is truthy or the empty mapping
TopRoots ==
    {IntV(5), FloatV(15), BoolV(TRUE), StrV(JUNK), ListV(<<IntV(1)>>), EmptyDict,
     MapV([other |-> IntV(1)])}
        \cup {RootOf(v) : v \in {None, IntV(0), IntV(5), BoolV(TRUE), BoolV(FALSE),
                                  StrV(<<>>), StrV(JUNK), EmptyDict,
                                  MapV([other |-> IntV(1)])}}

\* a team sub-document: missing, no mapping, or each name missing, null, empty or set
TeamVals(full, short) ==
    {Absent, StrV(JUNK)}
        \cup {MkMap([teamName |-> n, teamSName |-> sn]) :
                n \in {Absent, None, StrV(<<>>), StrV(full)},
                sn \in {Absent, StrV(<<>>), StrV(short)}}

\* documents holding one match, varying the parts of its label
LabelRoots ==
    {RootOfWrapper(Wrapper(n, ListV(<<MkMap([matchInfo |->
            MkMap([matchId |-> IntV(9), team1 |-> x, team2 |-> y, matchFormat |-> f])])>>))) :
        n \in {Absent, None, StrV(IPL)},
        x \in TeamVals(INDIA, IND), y \in TeamVals(AUSTRALIA, AUS),
        f \in {Absent, IntV(20), StrV(T20_BLAST)}}

RootDocs == TopRoots \cup DeepRoots \cup MidRoots \cup WideRoots \cup LabelRoots

-----------------------------------------------------------------------------
(* Specifications: each draws the arguments of one function and calls it *)

IdleFormat == info = Unset /\ fmt = Unset
IdleOvers == overs = Unset /\ ovf = Unset
IdleInnings == score = Unset /\ t1s = Unset /\ t2s = Unset /\ cur = Unset
IdleFlatten == root = Unset /\ flat = Unset
IdleShow == innings = Unset /\ shown = Unset
IdleExtras == xin = Unset /\ xout = Unset
IdleDetails == chosen = Unset /\ snap = Unset
IdleApp ==
    /\ now = Unset /\ cache = Unset /\ API_KEY = Unset /\ server = Unset /\ table = Unset
    /\ edit = Unset /\ run = Unset /\ nruns = Unset
    /\ session = Unset /\ effect = Unset /\ choice = Unset

InitFormat ==
    /\ info \in FormatInfos \cup {None, StrV(JUNK)}
    /\ fmt = Pending
    /\ IdleOvers /\ IdleInnings /\ IdleFlatten
    /\ IdleShow /\ IdleExtras /\ IdleDetails /\ IdleApp

CallGuessFormat ==
    /\ fmt = Pending
    /\ fmt' = guess_format(info)
    /\ UNCHANGED <<info, overs, ovf, score, t1s, t2s, cur, root, flat,
                   renderVars, snapVars, appVars>>

SpecFormat == InitFormat /\ [][CallGuessFormat]_vars

InitOvers ==
    /\ overs \in OversArgs
    /\ ovf = Pending
    /\ IdleFormat /\ IdleInnings /\ IdleFlatten
    /\ IdleShow /\ IdleExtras /\ IdleDetails /\ IdleApp

CallOversToFloat ==
    /\ ovf = Pending
    /\ ovf' = Ret(overs_to_float(overs))
    /\ UNCHANGED <<info, fmt, overs, score, t1s, t2s, cur, root, flat,
                   renderVars, snapVars, appVars>>

SpecOvers == InitOvers /\ [][CallOversToFloat]_vars

InitInnings ==
    /\ score \in ScoreDocs
    /\ \E p \in TeamTagPairs : t1s = p[1] /\ t2s = p[2]
    /\ cur = Pending
    /\ IdleFormat /\ IdleOvers /\ IdleFlatten
    /\ IdleShow /\ IdleExtras /\ IdleDetails /\ IdleApp

CallPickCurrentInnings ==
    /\ cur = Pending
    /\ cur' = pick_current_innings(score, t1s, t2s)
    /\ UNCHANGED <<info, fmt, overs, ovf, score, t1s, t2s, root, flat,
                   renderVars, snapVars, appVars>>

SpecInnings == InitInnings /\ [][CallPickCurrentInnings]_vars

InitFlatten ==
    /\ root \in RootDocs
    /\ flat = Pending
    /\ IdleFormat /\ IdleOvers /\ IdleInnings
    /\ IdleShow /\ IdleExtras /\ IdleDetails /\ IdleApp

CallCollectMatches ==
    /\ flat = Pending
    /\ flat' = collect_matches(root)
    /\ UNCHANGED <<info, fmt, overs, ovf, score, t1s, t2s, cur, root,
                   renderVars, snapVars, appVars>>

SpecFlatten == InitFlatten /\ [][CallCollectMatches]_vars

-----------------------------------------------------------------------------
(* The listing document as the claims describe it *)

\* the lists found at the three levels; nothing where a level is missing or malformed
TypeMatchesList(r) ==
    IF IsDict(r) /\ IsList(Get(r, "typeMatches")) THEN Get(r, "typeMatches").v ELSE <<>>

SeriesList(b) ==
    IF IsDict(b) /\ IsList(Get(b, "seriesMatches")) THEN Get(b, "seriesMatches").v ELSE <<>>

WrapperOfSeries(x) ==
    IF IsDict(x) /\ IsDict(Get(x, "seriesAdWrapper")) THEN Get(x, "seriesAdWrapper")
    ELSE EmptyDict

MatchList(x) ==
    IF IsList(Get(WrapperOfSeries(x), "matches"))
    THEN Get(WrapperOfSeries(x), "matches").v ELSE <<>>

\* <<i, j, k>>: match k of series element j of bucket i
Paths(r) ==
    UNION {UNION {{<<i, j, k>> :
                     k \in DOMAIN MatchList(SeriesList(TypeMatchesList(r)[i])[j])} :
                  j \in DOMAIN SeriesList(TypeMatchesList(r)[i])} :
           i \in DOMAIN TypeMatchesList(r)}

SeriesAt(r, p) == SeriesList(TypeMatchesList(r)[p[1]])[p[2]]
MatchAt(r, p) == MatchList(SeriesAt(r, p))[p[3]]

\* source order: buckets, then series elements, then matches
PathLeq(p, q) ==
    \/ p[1] < q[1]
    \/ p[1] = q[1] /\ p[2] < q[2]
    \/ p[1] = q[1] /\ p[2] = q[2] /\ p[3] <= q[3]

\* the place of path p among the paths P, counted from 1 in source order
Rank(P, p) == Cardinality({q \in P : PathLeq(q, p)})

FieldIsMappingOrMissing(d, k) == HasKey(d, k) => IsDict(d.v[k])
FieldIsListOrMissing(d, k) == HasKey(d, k) => IsList(d.v[k])

WellFormedMatch(m) ==
    IsDict(m) /\ FieldIsMappingOrMissing(m, "matchInfo")
        /\ FieldIsMappingOrMissing(m, "matchScore")

WellFormedSeries(x) ==
    /\ IsDict(x)
    /\ FieldIsMappingOrMissing(x, "seriesAdWrapper")
    /\ FieldIsListOrMissing(WrapperOfSeries(x), "matches")
    /\ \A k \in DOMAIN MatchList(x) : WellFormedMatch(MatchList(x)[k])

WellFormedBucket(b) ==
    /\ IsDict(b)
    /\ FieldIsListOrMissing(b, "seriesMatches")
    /\ \A j \in DOMAIN SeriesList(b) : WellFormedSeries(SeriesList(b)[j])

\* every level that is present has the type of the listing schema
WellFormedRoot(r) ==
    /\ IsDict(r) /\ HasKey(r, "typeMatches") /\ IsList(Get(r, "typeMatches"))
    /\ \A i \in DOMAIN TypeMatchesList(r) : WellFormedBucket(TypeMatchesList(r)[i])

\* the paths of the matches that lie on a well-formed branch
GoodPaths(r) == {p \in Paths(r) : WellFormedMatch(MatchAt(r, p))}

\* not a mapping, no typeMatches, or a typeMatches that is no list
InvalidTop(r) ==
    ~IsDict(r) \/ ~HasKey(r, "typeMatches") \/ ~IsList(Get(r, "typeMatches"))

Flattened == root # Unset /\ flat # Pending

\* entry e is the summary of match m
SummaryOf(e, m) ==
    /\ e.info = Or(Get(m, "matchInfo"), EmptyDict)
    /\ e.score = Or(Get(m, "matchScore"), EmptyDict)
    /\ e.match_id = Get(e.info, "matchId")

-----------------------------------------------------------------------------
(* Claims: collect_matches *)

\* C1: for an input that is not a mapping, lacks typeMatches, or whose typeMatches
\* is not a list, the result is the empty sequence and no exception is raised.
\* The code raises for a truthy non-mapping root and for a truthy non-list
\* typeMatches.
C1_InvalidTopYieldsEmpty ==
    (Flattened /\ InvalidTop(root)) => flat = Ret(<<>>)

\* C2: with a list-valued typeMatches, every malformed branch contributes no
\* entry, the well-formed branches contribute theirs in order, and no exception is
\* raised.  The code raises on the first element that is no mapping.
C2_MalformedBranchesContributeNothing ==
    (Flattened /\ ~InvalidTop(root)) =>
        /\ ~IsRaise(flat)
        /\ Len(flat.v) = Cardinality(GoodPaths(root))
        /\ \A p \in GoodPaths(root) :
              SummaryOf(flat.v[Rank(GoodPaths(root), p)], MatchAt(root, p))

\* C3: for a well-formed document the result holds exactly one summary per match
\* under a seriesAdWrapper, in the order typeMatches, seriesMatches, matches.
C3_OneSummaryPerMatchInSourceOrder ==
    (Flattened /\ WellFormedRoot(root)) =>
        /\ ~IsRaise(flat)
        /\ Len(flat.v) = Cardinality(Paths(root))
        /\ \A p \in Paths(root) :
              SummaryOf(flat.v[Rank(Paths(root), p)], MatchAt(root, p))

\* C3 witness: a well-formed document with two buckets was flattened to three
\* summaries or more.
C3_Witness ==
    /\ Flattened /\ WellFormedRoot(root)
    /\ Len(TypeMatchesList(root)) >= 2
    /\ \A i \in DOMAIN TypeMatchesList(root) : \E p \in Paths(root) : p[1] = i
    /\ ~IsRaise(flat) /\ Len(flat.v) >= 3

\* the name a label shows for a team: the full name if present and non-empty,
\* else the short name if present and non-empty, else the placeholder
NameShown(i, team, placeholder) ==
    LET full == g(i, <<team, "teamName">>, None)
        short == g(i, <<team, "teamSName">>, None)
    IN  IF Truthy(full) THEN PyStr(full)
        ELSE IF Truthy(short) THEN PyStr(short)
        ELSE placeholder

\* the series a label shows: the wrapper's seriesName, "Series" if it has none
SeriesShown(w) ==
    IF HasKey(w, "seriesName") THEN PyStr(w.v["seriesName"]) ELSE SERIES

\* C4: every summary's label is "{team1} vs {team2} - {series} ({format})" (the
\* dash being the em dash) with the team names falling back from full name to
\* short name to "Team 1" / "Team 2", the series of the wrapper and the format
\* the classifier gives for the same matchInfo.
C4_LabelOfEverySummary ==
    (Flattened /\ ~IsRaise(flat)) =>
        /\ Len(flat.v) = Cardinality(Paths(root))
        /\ \A p \in Paths(root) :
              LET e == flat.v[Rank(Paths(root), p)]
              IN  /\ e.format = guess_format(e.info).v
                  /\ e.series = GetOr(WrapperOfSeries(SeriesAt(root, p)), "seriesName",
                                      StrV(SERIES))
                  /\ e.label = NameShown(e.info, "team1", TEAM1)
                                  \o <<" ", "v", "s", " ">>
                                  \o NameShown(e.info, "team2", TEAM2)
                                  \o <<" ", "emdash", " ">>
                                  \o SeriesShown(WrapperOfSeries(SeriesAt(root, p)))
                                  \o <<" ", "(">> \o e.format \o <<")">>

\* C4 witness: a summary whose team 1 fell back to its short name and whose
\* team 2 fell back to the placeholder.
C4_Witness ==
    /\ Flattened /\ ~IsRaise(flat) /\ Len(flat.v) = 1
    /\ ~Truthy(g(flat.v[1].info, <<"team1", "teamName">>, None))
    /\ g(flat.v[1].info, <<"team1", "teamSName">>, None) = StrV(IND)
    /\ g(flat.v[1].info, <<"team2", "teamName">>, None) = StrV(<<>>)
    /\ ~Truthy(g(flat.v[1].info, <<"team2", "teamSName">>, None))
    /\ flat.v[1].label =
          IND \o VS \o TEAM2 \o SEP \o IPL \o <<" ", "(">> \o T20 \o <<")">>

-----------------------------------------------------------------------------
(* Claims: guess_format *)

FieldOrder == <<"matchFormat", "matchDesc", "stateTitle", "seriesName">>

\* field k of i is a string that contains the tag, whatever the case
FieldHasTag(i, k, tag) ==
    HasKey(i, k) /\ IsStr(i.v[k]) /\ Contains(Upper(i.v[k].v), tag)

\* the places in FieldOrder of the fields that carry a tag
TaggedFields(i) ==
    {n \in DOMAIN FieldOrder : \E tag \in {TEST, ODI, T20} : FieldHasTag(i, FieldOrder[n], tag)}

FirstTaggedField(i) ==
    FieldOrder[CHOOSE n \in TaggedFields(i) : \A o \in TaggedFields(i) : n <= o]

\* C5: the classifier returns the tag of the first of matchFormat, matchDesc,
\* stateTitle, seriesName that is a string containing TEST, ODI or T20 in any case
\* (TEST before ODI before T20 within one field), skips a field that is absent or
\* no string, and returns UNKNOWN when no field matches; matchFormat "ODI
\* one-dayer" with matchDesc "T20 Blast" gives ODI.
C5_FirstMatchingFieldWins ==
    (info # Unset /\ IsDict(info) /\ fmt # Pending) =>
        /\ ~IsRaise(fmt)
        /\ (TaggedFields(info) = {}) => fmt.v = UNKNOWN
        /\ (TaggedFields(info) # {}) =>
              /\ fmt.v \in {TEST, ODI, T20}
              /\ FieldHasTag(info, FirstTaggedField(info), fmt.v)
              /\ fmt.v = ODI => ~FieldHasTag(info, FirstTaggedField(info), TEST)
              /\ fmt.v = T20 => ~FieldHasTag(info, FirstTaggedField(info), TEST)
                                  /\ ~FieldHasTag(info, FirstTaggedField(info), ODI)
        /\ (Get(info, "matchFormat") = StrV(ODI_ONE_DAYER)
                /\ Get(info, "matchDesc") = StrV(T20_BLAST)) => fmt.v = ODI

\* C5 witness: matchFormat is no string, matchDesc is "T20 Blast", and a later
\* field carries another tag; the result is T20.
C5_Witness ==
    /\ info # Unset /\ IsDict(info) /\ fmt = Ret(T20)
    /\ Get(info, "matchFormat") = IntV(20)
    /\ Get(info, "matchDesc") = StrV(T20_BLAST)
    /\ Get(info, "stateTitle") = StrV(LOWER_TEST)

-----------------------------------------------------------------------------
(* Claims: overs_to_float *)

\* the text is "o.b": one point with a signed whole number on either side
IsBallsNotation(s) ==
    \E i \in DOMAIN s :
        /\ s[i] = "."
        /\ IsSignedDigits(SubSeq(s, 1, i - 1))
        /\ IsSignedDigits(SubSeq(s, i + 1, Len(s)))

OversPart(s) == SignedValue(SubSeq(s, 1, (CHOOSE i \in DOMAIN s : s[i] = ".") - 1))
BallsPart(s) == SignedValue(SubSeq(s, (CHOOSE i \in DOMAIN s : s[i] = ".") + 1, Len(s)))

\* the input denotes an overs value that is not negative
IsRealOvers(x) ==
    \/ x.t \in {"int", "float"} /\ x.v >= 0
    \/ IsStr(x) /\ IsSignedDigits(x.v) /\ x.v[1] # "-"
    \/ IsStr(x) /\ IsBallsNotation(x.v) /\ \A i \in DOMAIN x.v : x.v[i] # "-"

\* C6: overs_to_float gives -1.0 for None, the number itself for a number,
\* o + b/6 for the text "o.b", the value of a text without a point, and -1.0 for
\* everything else; "12.3" gives 12.5, 20 gives 20.0, and -1.0 is below the value
\* of every overs input that is not negative.  Values are in units of 1/Unit.
C6_OversToFloat ==
    (overs # Unset /\ ovf # Pending) =>
        /\ ovf.t = "ret"
        /\ overs = None => ovf.v = -1 * Unit
        /\ overs.t = "int" => ovf.v = overs.v * Unit
        /\ overs.t = "float" => 10 * ovf.v = overs.v * Unit
        /\ overs.t = "bool" => ovf.v = (IF overs.v THEN Unit ELSE 0)
        /\ (IsStr(overs) /\ IsBallsNotation(overs.v)) =>
              6 * ovf.v = 6 * OversPart(overs.v) * Unit + BallsPart(overs.v) * Unit
        /\ (IsStr(overs) /\ IsSignedDigits(overs.v)) =>
              ovf.v = SignedValue(overs.v) * Unit
        /\ (IsStr(overs) /\ ~IsBallsNotation(overs.v) /\ ~IsSignedDigits(overs.v)) =>
              ovf.v = -1 * Unit
        /\ overs.t \in {"list", "map"} => ovf.v = -1 * Unit
        /\ overs = StrV(TWELVE_3) => 2 * ovf.v = 25 * Unit
        /\ overs = IntV(20) => ovf.v = 20 * Unit
        /\ IsRealOvers(overs) => ovf.v > -1 * Unit

\* C6 witness: the text "12.3" was converted to 12.5.
C6_Witness ==
    overs = StrV(TWELVE_3) /\ ovf # Pending /\ 2 * ovf.v = 25 * Unit

-----------------------------------------------------------------------------
(* Claims: pick_current_innings *)

SlotOrder ==
    << <<"team1Score", "inngs2">>, <<"team2Score", "inngs2">>,
       <<"team1Score", "inngs1">>, <<"team2Score", "inngs1">> >>

\* the team-score records in enumeration order, each with its team (1 or 2)
TeamRecords(sc) ==
    SelectSeq([n \in DOMAIN SlotOrder |->
                  [team |-> IF SlotOrder[n][1] = "team1Score" THEN 1 ELSE 2,
                   inn |-> g(sc, SlotOrder[n], None)]],
              LAMBDA c : Truthy(c.inn))

\* the team an inningsScoreList entry bats for: 1, 2, or 0 when batTeamId is neither
TeamOfEntry(e) ==
    IF PyEqInt(Get(e, "batTeamId"), 1) THEN 1
    ELSE IF PyEqInt(Get(e, "batTeamId"), 2) THEN 2 ELSE 0

\* the mappings of inningsScoreList in list order
ListRecords(sc) ==
    IF IsDict(sc) /\ IsList(Get(sc, "inningsScoreList"))
    THEN LET es == SelectSeq(Get(sc, "inningsScoreList").v, IsDict)
         IN  [n \in DOMAIN es |-> [team |-> TeamOfEntry(es[n]), inn |-> es[n]]]
    ELSE <<>>

\* the candidates in the order of the claims
Enumerated(sc) == TeamRecords(sc) \o ListRecords(sc)

OversFloatOf(inn) == overs_to_float(Get(inn, "overs"))

\* the selector returned after selecting a candidate
Selected == score # Unset /\ cur.t = "ret" /\ Len(Enumerated(score)) > 0

\* the tag returned for team n
TagShown(n) == IF n = 1 THEN t1s ELSE IF n = 2 THEN t2s ELSE StrV(DASH)

\* the places of the candidates en with the highest overs-float
Leaders(en) ==
    {n \in DOMAIN en :
        \A o \in DOMAIN en : OversFloatOf(en[n].inn) >= OversFloatOf(en[o].inn)}

FirstLeader(en) == en[CHOOSE n \in Leaders(en) : \A o \in Leaders(en) : n <= o]

NoCandidate(sc) ==
    /\ \A n \in DOMAIN SlotOrder :
          ~(IsDict(g(sc, SlotOrder[n], None)) /\ Truthy(g(sc, SlotOrder[n], None)))
    /\ Len(ListRecords(sc)) = 0

\* C9: a score document that yields no candidate, one that is empty or of the
\* wrong shape included, gets the fully-unknown result without an exception.
\* The code raises for a score that is no mapping and for an innings that is
\* truthy and no mapping.
C9_NoCandidateGivesUnknown ==
    (score # Unset /\ cur # Pending /\ NoCandidate(score)) =>
        cur = Ret([bat |-> StrV(DASH), bowl |-> StrV(DASH), inn |-> EmptyDict])

\* C10 as claimed: whenever a candidate is selected, batting team 1 means bowling
\* team 2, batting team 2 means bowling team 1, and the two returned teams are
\* never the same.
C10_BowlingIsTheOtherTeam ==
    Selected =>
        /\ cur.v.bat = t1s => cur.v.bowl = t2s
        /\ cur.v.bat = t2s => cur.v.bowl = t1s
        /\ cur.v.bat # cur.v.bowl

\* C10 as amended: the same, for team tags that differ and a tag of team 1 that
\* is not the placeholder; the teams are compared by their tags.
C10_BowlingIsTheOtherTeamForDistinctTags ==
    (Selected /\ t1s # t2s /\ t1s # StrV(DASH)) =>
        /\ cur.v.bat = t1s => cur.v.bowl = t2s
        /\ cur.v.bat = t2s => cur.v.bowl = t1s
        /\ cur.v.bat # cur.v.bowl

\* C10 witness: a list entry of team 2 was selected, team 1 bowls.
C10_Witness ==
    /\ Selected /\ t1s # t2s /\ t1s # StrV(DASH)
    /\ Len(TeamRecords(score)) = 0
    /\ FirstLeader(Enumerated(score)).team = 2
    /\ cur.v.bat = t2s /\ cur.v.bowl = t1s

-----------------------------------------------------------------------------
(* show_innings (Live_Match.py 52-65) *)

\* isinstance(x, int): bool is a subclass of int
IsInt(x) == x.t \in {"int", "bool"}

\* the integer an int or a bool stands for in arithmetic
IntOf(x) == IF x.t = "bool" THEN (IF x.v THEN 1 ELSE 0) ELSE x.v

\* f"{balls//6}.{balls%6}": floor division and a remainder in 0..5
BallsText(balls) ==
    IntText(IntOf(balls) \div BallsPerOver) \o <<".">>
        \o IntText(IntOf(balls) % BallsPerOver)

\* the text of the "-" shown for overs that cannot be told
HYPHEN == <<"-">>

\* faulty variant: the ball count is preferred to the overs field
OversTextMutBallsFirst(d) ==
    IF IsInt(Get(d, "balls")) THEN BallsText(Get(d, "balls"))
    ELSE IF Get(d, "overs") # None THEN PyStr(Get(d, "overs"))
    ELSE HYPHEN

\* lines 58-61, as the f-string prints the outcome: the overs field unless it
\* is None, else the converted ball count, else "-"
OversText(d) ==
    IF Get(d, "overs") # None THEN PyStr(Get(d, "overs"))
    ELSE IF IsInt(Get(d, "balls")) THEN BallsText(Get(d, "balls"))
    ELSE HYPHEN

\* faulty variant: the wickets are printed only when the runs are missing
ShowInningsMutRunsFirst(d) ==
    IF ~IsDict(d) \/ ~Truthy(d) THEN <<>>
    ELSE IF Get(d, "runs") = None /\ Get(d, "wickets") = None THEN <<>>
    ELSE IF Get(d, "runs") = None
         THEN PyStr(Get(d, "runs")) \o <<"/">> \o PyStr(Get(d, "wickets"))
                \o <<" ", "(">> \o OversText(d) \o <<")">>
    ELSE PyStr(Get(d, "runs")) \o <<" ", "(">> \o OversText(d) \o <<")">>

show_innings(d) ==
    IF ~IsDict(d) \/ ~Truthy(d) THEN <<>>
    ELSE IF Get(d, "runs") = None /\ Get(d, "wickets") = None THEN <<>>
    ELSE IF Get(d, "wickets") # None
         THEN PyStr(Get(d, "runs")) \o <<"/">> \o PyStr(Get(d, "wickets"))
                \o <<" ", "(">> \o OversText(d) \o <<")">>
    ELSE PyStr(Get(d, "runs")) \o <<" ", "(">> \o OversText(d) \o <<")">>

-----------------------------------------------------------------------------
(* _extract_extras (Live_Match.py 98-114) *)

\* isinstance(x, (int, float, str))
IsScalar(x) == x.t \in {"int", "float", "bool", "str"}

\* a number counted in tenths
Tenths(x) == IF x.t = "float" THEN x.v ELSE 10 * IntOf(x)

\* total + v: an int unless one of the two is a float
Plus(total, v) ==
    IF total.t = "float" \/ v.t = "float" THEN FloatV(Tenths(total) + Tenths(v))
    ELSE IntV(IntOf(total) + IntOf(v))

\* the sub-fields of a breakdown, in the order the loop adds them
ExtrasKeys == <<"byes", "legByes", "wides", "noBalls", "penalty">>

\* the loop of lines 108-111: a sub-field that is no number is skipped
RECURSIVE SumExtras(_, _, _)
SumExtras(ed, ks, total) ==
    IF Len(ks) = 0 THEN total
    ELSE LET v == Get(ed, Head(ks))
         IN  SumExtras(ed, Tail(ks), IF IsNumber(v) THEN Plus(total, v) ELSE total)

\* lines 105-113: the breakdown is extras if that is a mapping, else extraDetail
ExtrasOfBreakdown(d) ==
    LET ed == IF IsDict(Get(d, "extras")) THEN Get(d, "extras") ELSE Get(d, "extraDetail")
    IN  IF IsDict(ed)
        THEN LET total == SumExtras(ed, ExtrasKeys, IntV(0))
             IN  IF Tenths(total) > 0 THEN total ELSE StrV(DASH)
        ELSE StrV(DASH)

\* faulty variant: extraRuns is consulted before extras
ExtractExtrasMutRunsFirst(d) ==
    IF ~IsDict(d) THEN StrV(DASH)
    ELSE IF IsScalar(Get(d, "extraRuns")) THEN d.v["extraRuns"]
    ELSE IF IsScalar(Get(d, "extras")) THEN d.v["extras"]
    ELSE ExtrasOfBreakdown(d)

extract_extras(d) ==
    IF ~IsDict(d) THEN StrV(DASH)
    ELSE IF IsScalar(Get(d, "extras")) THEN d.v["extras"]
    ELSE IF IsScalar(Get(d, "extraRuns")) THEN d.v["extraRuns"]
    ELSE ExtrasOfBreakdown(d)

-----------------------------------------------------------------------------
(* Innings records handed to show_innings and to _extract_extras *)

EIGHTEEN_2 == <<"1", "8", ".", "2">>
FORTY_FIVE == <<"4", "5">>
THIRTEEN == <<"1", "3">>
SEVEN == <<"7">>

\* what is no innings record at all
NotARecord == {None, IntV(5), StrV(JUNK), EmptyList, ListV(<<IntV(1)>>)}

ShowArgs ==
    NotARecord \cup
    {MkMap([runs |-> r, wickets |-> w, overs |-> o, balls |-> b]) :
        r \in {Absent, None, IntV(120), IntV(0), StrV(FORTY_FIVE)},
        w \in {Absent, None, IntV(4), IntV(0)},
        o \in {Absent, None, StrV(EIGHTEEN_2), StrV(<<>>), FloatV(182), IntV(20)},
        b \in {Absent, None, IntV(13), IntV(0), IntV(-1), IntV(120), BoolV(TRUE),
               FloatV(130), StrV(THIRTEEN)}}

Breakdown(byes, legByes, wides, noBalls, penalty) ==
    MkMap([byes |-> byes, legByes |-> legByes, wides |-> wides, noBalls |-> noBalls,
           penalty |-> penalty])

\* a breakdown place: nothing, no mapping, or a mapping whose sub-fields are
\* missing, null, zero, negative, fractional, boolean or text
BreakdownVals ==
    {Absent, None, ListV(<<IntV(1)>>), EmptyDict,
     Breakdown(IntV(2), Absent, IntV(3), Absent, Absent),
     Breakdown(IntV(0), Absent, Absent, Absent, Absent),
     Breakdown(IntV(-1), None, IntV(3), Absent, Absent),
     Breakdown(IntV(-2), Absent, Absent, Absent, IntV(1)),
     Breakdown(Absent, FloatV(15), Absent, IntV(1), Absent),
     Breakdown(StrV(SEVEN), Absent, Absent, Absent, IntV(5)),
     Breakdown(StrV(SEVEN), Absent, Absent, Absent, Absent),
     Breakdown(BoolV(TRUE), IntV(1), IntV(1), IntV(1), IntV(1))}

ExtrasArgs ==
    NotARecord \cup
    {MkMap([extras |-> e, extraRuns |-> r, extraDetail |-> x]) :
        e \in {Absent, None, IntV(7), IntV(0), FloatV(75), StrV(SEVEN), StrV(<<>>),
               BoolV(FALSE), ListV(<<IntV(1)>>)}
                \cup (BreakdownVals \ {Absent, None, ListV(<<IntV(1)>>)}),
        r \in {Absent, None, IntV(9), StrV(<<>>), EmptyDict},
        x \in BreakdownVals}

-----------------------------------------------------------------------------
(* Specifications of the score renderer and of the extras normalizer *)

InitShow ==
    /\ innings \in ShowArgs
    /\ shown = Pending
    /\ IdleFormat /\ IdleOvers /\ IdleInnings /\ IdleFlatten
    /\ IdleExtras /\ IdleDetails /\ IdleApp

CallShowInnings ==
    /\ shown = Pending
    /\ shown' = Ret(show_innings(innings))
    /\ UNCHANGED <<info, fmt, overs, ovf, score, t1s, t2s, cur, root, flat,
                   innings, xin, xout, snapVars, appVars>>

SpecShow == InitShow /\ [][CallShowInnings]_vars

InitExtras ==
    /\ xin \in ExtrasArgs
    /\ xout = Pending
    /\ IdleFormat /\ IdleOvers /\ IdleInnings /\ IdleFlatten
    /\ IdleShow /\ IdleDetails /\ IdleApp

CallExtractExtras ==
    /\ xout = Pending
    /\ xout' = Ret(extract_extras(xin))
    /\ UNCHANGED <<info, fmt, overs, ovf, score, t1s, t2s, cur, root, flat,
                   innings, shown, xin, snapVars, appVars>>

SpecExtras == InitExtras /\ [][CallExtractExtras]_vars

-----------------------------------------------------------------------------
(* The score renderer as the claims describe it *)

\* the field is there and is not null
Present(d, k) == IsDict(d) /\ HasKey(d, k) /\ d.v[k] # None

\* how a field is printed; a field that is not there prints as None
Printed(d, k) == PyStr(Get(d, k))

\* the text t begins with p / ends with q
StartsWith(t, p) == Len(p) <= Len(t) /\ SubSeq(t, 1, Len(p)) = p
EndsWith(t, q) == Len(q) <= Len(t) /\ SubSeq(t, Len(t) - Len(q) + 1, Len(t)) = q

\* the text show_innings returned
Rendered == shown.v

\* C11: show_innings returns "{runs}/{wickets} ({overs})" when wickets is
\* present, else "{runs} ({overs})" when runs is present, and the empty text
\* exactly when runs and wickets are both absent, which covers the empty record
\* and an input that is no mapping.
C11_RenderedShape ==
    shown # Pending =>
        /\ Present(innings, "wickets") =>
                /\ StartsWith(Rendered, Printed(innings, "runs") \o <<"/">>
                                \o Printed(innings, "wickets") \o <<" ", "(">>)
                /\ EndsWith(Rendered, <<")">>)
        /\ (~Present(innings, "wickets") /\ Present(innings, "runs")) =>
                /\ StartsWith(Rendered, Printed(innings, "runs") \o <<" ", "(">>)
                /\ EndsWith(Rendered, <<")">>)
        /\ Rendered = <<>> <=>
                (~Present(innings, "runs") /\ ~Present(innings, "wickets"))

\* {runs:120, wickets:4, overs:"18.2"} was rendered as "120/4 (18.2)"
C11_Witness ==
    /\ shown # Pending
    /\ innings = MkMap([runs |-> IntV(120), wickets |-> IntV(4), overs |-> StrV(EIGHTEEN_2)])
    /\ Rendered = <<"1", "2", "0", "/", "4", " ", "(", "1", "8", ".", "2", ")">>

\* a ball count: an integer number of balls
HasBallCount(d) == Present(d, "balls") /\ d.v["balls"].t \in {"int", "bool"}

\* the number of balls of a ball count
BallCount(d) == IF d.v["balls"].t = "bool" THEN 1 ELSE d.v["balls"].v

\* the overs part the claim prescribes
OversPartShown(d) ==
    IF Present(d, "overs") THEN Printed(d, "overs")
    ELSE IF HasBallCount(d)
         THEN LET q == CHOOSE n \in -4..40 :
                        BallsPerOver * n <= BallCount(d) /\ BallCount(d) < BallsPerOver * (n + 1)
              IN  IntText(q) \o <<".">> \o IntText(BallCount(d) - BallsPerOver * q)
    ELSE HYPHEN

\* C12: the overs part of the rendered text is the overs field verbatim when
\* there is one, else "q.r" with q = balls // 6 and r = balls % 6 when there is
\* a ball count, else "-".
C12_OversPart ==
    (shown # Pending /\ Rendered # <<>>) =>
        EndsWith(Rendered, <<" ", "(">> \o OversPartShown(innings) \o <<")">>)

\* 13 balls and no overs field were rendered as "(2.1)"
C12_Witness ==
    /\ shown # Pending
    /\ innings = MkMap([runs |-> IntV(120), wickets |-> IntV(4), balls |-> IntV(13)])
    /\ EndsWith(Rendered, <<"(", "2", ".", "1", ")">>)

-----------------------------------------------------------------------------
(* The extras normalizer as the claims describe it *)

\* a number or a text
Scalar(x) == x.t \in {"int", "float", "bool", "str"}

\* the field of an innings record; None where there is none
FieldOf(d, k) == IF IsDict(d) /\ HasKey(d, k) THEN d.v[k] ELSE None

\* the breakdown mapping: the one under extras, else the one under extraDetail
BreakdownOf(d) ==
    IF IsDict(FieldOf(d, "extras")) THEN FieldOf(d, "extras")
    ELSE FieldOf(d, "extraDetail")

\* a sub-field in tenths; 0 when it is missing or no number
SubField(ed, k) ==
    IF HasKey(ed, k) /\ ed.v[k].t \in {"int", "float", "bool"}
    THEN (IF ed.v[k].t = "float" THEN ed.v[k].v
          ELSE IF ed.v[k].t = "bool" THEN (IF ed.v[k].v THEN 10 ELSE 0)
          ELSE 10 * ed.v[k].v)
    ELSE 0

BreakdownSum(ed) ==
    SubField(ed, "byes") + SubField(ed, "legByes") + SubField(ed, "wides")
        + SubField(ed, "noBalls") + SubField(ed, "penalty")

\* the value returned, in tenths, when it is a number
ReturnedTenths(x) == IF x.t = "float" THEN x.v ELSE 10 * x.v

\* C13: extras when it is a scalar; else extraRuns when it is a scalar; else the
\* sum of the breakdown found under extras or extraDetail when that sum is
\* positive; else the em dash.
C13_ExtrasPriority ==
    xout # Pending =>
        IF Scalar(FieldOf(xin, "extras")) THEN xout.v = FieldOf(xin, "extras")
        ELSE IF Scalar(FieldOf(xin, "extraRuns")) THEN xout.v = FieldOf(xin, "extraRuns")
        ELSE IF IsDict(BreakdownOf(xin)) /\ BreakdownSum(BreakdownOf(xin)) > 0
             THEN /\ xout.v.t \in {"int", "float"}
                  /\ ReturnedTenths(xout.v) = BreakdownSum(BreakdownOf(xin))
        ELSE xout.v = StrV(DASH)

\* extras, extraRuns and extraDetail disagree and extras decided
C13_Witness ==
    /\ xout # Pending
    /\ FieldOf(xin, "extras") = IntV(7)
    /\ FieldOf(xin, "extraRuns") = IntV(9)
    /\ IsDict(FieldOf(xin, "extraDetail"))
    /\ BreakdownSum(FieldOf(xin, "extraDetail")) = 50
    /\ xout.v = IntV(7)

-----------------------------------------------------------------------------
(* The details of the chosen match (Live_Match.py 233-305) *)

STARS == <<"*", "*">>
INNS2 == <<" ", "(", "I", "n", "n", "s", " ", "2", ")">>
BR == <<"<", "b", "r", ">">>

\* the entries of inningsScoreList that _score_lines reads: isl[:2]
ListedInnings == 2

\* f"**{tag}**{suffix}: {show_innings(x)}"
TeamLine(tag, suffix, x) ==
    STARS \o PyStr(tag) \o STARS \o suffix \o <<":", " ">> \o show_innings(x)

\* one of the four appends of lines 281-288
TeamLineIf(tag, suffix, x) ==
    IF IsDict(x) /\ Truthy(x) THEN <<TeamLine(tag, suffix, x)>> ELSE <<>>

\* lines 276-288
TeamLines(s, a, b) ==
    TeamLineIf(a, <<>>, g(s, <<"team1Score", "inngs1">>, None))
        \o TeamLineIf(a, INNS2, g(s, <<"team1Score", "inngs2">>, None))
        \o TeamLineIf(b, <<>>, g(s, <<"team2Score", "inngs1">>, None))
        \o TeamLineIf(b, INNS2, g(s, <<"team2Score", "inngs2">>, None))

\* f"**{team_short}**: {runs}/{wkts if wkts is not None else '-'} ({ov})"
ListLine(e, team_short) ==
    STARS \o PyStr(team_short) \o STARS \o <<":", " ">> \o PyStr(Get(e, "score"))
        \o <<"/">> \o (IF Get(e, "wkts") # None THEN PyStr(Get(e, "wkts")) ELSE HYPHEN)
        \o <<" ", "(">> \o PyStr(Get(e, "overs")) \o <<")">>

\* the loop of lines 292-302 over the entries es, appending to out
RECURSIVE ListLines(_, _)
ListLines(es, out) ==
    IF Len(es) = 0 THEN out
    ELSE IF ~IsDict(Head(es)) THEN ListLines(Tail(es), out)
    ELSE LET e == Head(es)
             team_short == Or(Get(e, "batTeamShortName"), Get(e, "batTeamName"))
         IN  IF Get(e, "score") # None /\ Get(e, "overs") # None /\ Truthy(team_short)
             THEN LET line == ListLine(e, team_short)
                  IN  ListLines(Tail(es),
                                IF \E n \in DOMAIN out : out[n] = line THEN out
                                ELSE Append(out, line))
             ELSE ListLines(Tail(es), out)

\* _score_lines(), for a score that is a mapping
score_lines(s, a, b) ==
    LET out == TeamLines(s, a, b)
        isl == Get(s, "inningsScoreList")
    IN  IF IsList(isl)
        THEN ListLines(SubSeq(isl.v, 1, IF Len(isl.v) < ListedInnings THEN Len(isl.v)
                                        ELSE ListedInnings), out)
        ELSE out

\* "<br>".join(lines)
RECURSIVE JoinBr(_)
JoinBr(lines) ==
    IF Len(lines) = 1 THEN lines[1] ELSE lines[1] \o BR \o JoinBr(Tail(lines))

\* line 305
ScoreHtml(lines) == IF Len(lines) > 0 THEN JoinBr(lines) ELSE DASH

\* a or b or c or the em dash
FirstTruthy(a, b, c) == Or(Or(Or(a, b), c), StrV(DASH))

\* lines 240-305: the derived fields, or the exception that ends the page run
details(i, s) ==
    IF ~IsDict(i) THEN Raise("AttributeError")
    ELSE
    LET t1_obj == Or(Get(i, "team1"), EmptyDict)
        t2_obj == Or(Get(i, "team2"), EmptyDict)
    IN  IF ~IsDict(t1_obj) \/ ~IsDict(t2_obj) THEN Raise("AttributeError")
        ELSE
        LET t1 == Or(Or(Get(t1_obj, "teamName"), Get(t1_obj, "teamSName")), StrV(TEAM1))
            t2 == Or(Or(Get(t2_obj, "teamName"), Get(t2_obj, "teamSName")), StrV(TEAM2))
            a == Or(Get(t1_obj, "teamSName"), t1)
            b == Or(Get(t2_obj, "teamSName"), t2)
            picked == pick_current_innings(s, a, b)
        IN  IF IsRaise(picked) THEN picked
            ELSE
            LET current_inn == picked.v.inn
                lines == score_lines(s, a, b)
            IN  Ret([t1 |-> t1, t2 |-> t2, t1s |-> a, t2s |-> b,
                     ground |-> g(i, <<"venueInfo", "ground">>, StrV(HYPHEN)),
                     city |-> g(i, <<"venueInfo", "city">>, StrV(<<>>)),
                     country |-> g(i, <<"venueInfo", "country">>, StrV(<<>>)),
                     status |-> Or(Or(Get(i, "status"), Get(i, "state")), StrV(HYPHEN)),
                     batting_team |-> picked.v.bat,
                     bowling_team |-> picked.v.bowl,
                     current_inn |-> current_inn,
                     batter_name |->
                        FirstTruthy(g(s, <<"batsmanStriker", "batName">>, None),
                                    g(s, <<"batsman", "name">>, None),
                                    g(s, <<"batsmanNonStriker", "batName">>, None)),
                     bowler_name |->
                        FirstTruthy(g(s, <<"bowlerStriker", "bowlName">>, None),
                                    g(s, <<"bowler", "name">>, None),
                                    g(s, <<"bowlerNonStriker", "bowlName">>, None)),
                     wickets |-> GetOr(current_inn, "wickets", StrV(DASH)),
                     overs |-> GetOr(current_inn, "overs", StrV(DASH)),
                     run_rate |-> Or(Or(Get(current_inn, "runRate"), Get(current_inn, "rr")),
                                     StrV(DASH)),
                     extras |-> extract_extras(current_inn),
                     score_lines |-> lines,
                     score_html |-> ScoreHtml(lines)])

-----------------------------------------------------------------------------
(* The chosen match: documents that omit keys or carry null, at every level *)

KOHLI == <<"K", "o", "h", "l", "i">>
STARC == <<"S", "t", "a", "r", "c">>

\* a team of matchInfo: missing, null, or with names missing, null or given
TeamPlaces ==
    {Absent, None, StrV(JUNK)}
        \cup {MkMap([teamName |-> n, teamSName |-> sn]) :
                n \in {Absent, None, StrV(INDIA)}, sn \in {Absent, None, StrV(IND)}}

DetailInfos ==
    {MkMap([team1 |-> t, team2 |-> MkMap([teamSName |-> StrV(AUS)]), status |-> st,
            venueInfo |-> v]) :
        t \in TeamPlaces, st \in {Absent, None, StrV(FINAL)},
        v \in {Absent, None, MkMap([ground |-> None])}}

BaseInfo == MkMap([team1 |-> TeamDoc(INDIA, IND), team2 |-> TeamDoc(AUSTRALIA, AUS)])

\* an innings record of the score: every field missing, null or given
DetailInnings ==
    {MkMap([runs |-> r, wickets |-> w, overs |-> o, runRate |-> rr, rr |-> r2,
            extras |-> e]) :
        r \in {Absent, None, IntV(120)}, w \in {Absent, None, IntV(4)},
        o \in {Absent, None, StrV(EIGHTEEN_2)}, rr \in {Absent, None, FloatV(65), IntV(0)},
        r2 \in {Absent, FloatV(60)}, e \in {Absent, None, IntV(7)}}

\* who is at the crease or bowling: missing, null, or with the name missing, null or given
PlayerPlaces(key, name) ==
    {Absent, None, EmptyDict, MkMap([n \in {key} |-> None]), MkMap([n \in {key} |-> StrV(name)])}

ListedEntry(sc, w, o, sn, n) ==
    MkMap([batTeamId |-> IntV(2), score |-> sc, wkts |-> w, overs |-> o,
           batTeamShortName |-> sn, batTeamName |-> n])

\* inningsScoreList: missing, null, or with entries that are null or have null fields
ListedPlaces ==
    {Absent, None, EmptyList, ListV(<<None>>)}
        \cup {ListV(<<ListedEntry(sc, w, o, sn, StrV(AUSTRALIA))>>) :
                sc \in {Absent, None, IntV(250)}, w \in {None, IntV(9)},
                o \in {None, FloatV(500)}, sn \in {Absent, None, StrV(AUS)}}
        \cup {ListV(<<ListedEntry(IntV(250), IntV(9), FloatV(500), StrV(AUS), Absent),
                      ListedEntry(IntV(250), IntV(9), FloatV(500), StrV(AUS), Absent),
                      ListedEntry(IntV(300), None, FloatV(500), None, None)>>)}

BaseInnings == MkMap([runs |-> IntV(120), wickets |-> IntV(4), overs |-> StrV(EIGHTEEN_2)])

DetailScores ==
    {IntV(5), StrV(JUNK), EmptyDict}
        \cup {ScoreDoc(x, Absent, Absent, Absent, Absent) : x \in DetailInnings}
        \cup {MkMap([team1Score |-> a, team2Score |-> b, inningsScoreList |-> l]) :
                a \in {Absent, None, EmptyDict, MkMap([inngs1 |-> None]),
                       MkMap([inngs1 |-> EmptyDict]),
                       MkMap([inngs1 |-> BaseInnings, inngs2 |-> None])},
                b \in {Absent, None, MkMap([inngs2 |-> MkMap([wickets |-> IntV(2)])])},
                l \in ListedPlaces}
        \cup {MkMap([team1Score |-> MkMap([inngs1 |-> BaseInnings]),
                     batsmanStriker |-> p1, batsman |-> p2,
                     bowlerStriker |-> q1, bowlerNonStriker |-> q2]) :
                p1 \in PlayerPlaces("batName", KOHLI), p2 \in PlayerPlaces("name", KOHLI),
                q1 \in PlayerPlaces("bowlName", STARC),
                q2 \in PlayerPlaces("bowlName", STARC)}

\* the entries the selector can hand on: info and score as collect_matches kept them
DetailDocs ==
    {[info |-> i, score |-> ScoreDoc(BaseInnings, Absent, Absent, Absent, Absent)] :
        i \in DetailInfos}
        \cup {[info |-> BaseInfo, score |-> s] : s \in DetailScores}

IdleRender == IdleShow /\ IdleExtras

InitDetails ==
    /\ chosen \in DetailDocs
    /\ snap = Pending
    /\ IdleFormat /\ IdleOvers /\ IdleInnings /\ IdleFlatten
    /\ IdleRender /\ IdleApp

CallDetails ==
    /\ snap = Pending
    /\ snap' = details(chosen.info, chosen.score)
    /\ UNCHANGED <<info, fmt, overs, ovf, score, t1s, t2s, cur, root, flat,
                   renderVars, chosen, appVars>>

SpecDetails == InitDetails /\ [][CallDetails]_vars

-----------------------------------------------------------------------------
(* The live snapshot as the claims describe it *)

MappingKeys ==
    {"team1", "team2", "venueInfo", "team1Score", "team2Score", "inngs1", "inngs2",
     "batsmanStriker", "batsman", "batsmanNonStriker", "bowlerStriker", "bowler",
     "bowlerNonStriker", "extraDetail"}

ListKeys == {"inningsScoreList"}

\* the document is of the expected shape except that keys are omitted or null
RECURSIVE OmitsOrNulls(_)
OmitsOrNulls(x) ==
    IF IsDict(x)
    THEN \A k \in DOMAIN x.v :
            \/ x.v[k] = None
            \/ /\ k \in MappingKeys => IsDict(x.v[k])
               /\ k \in ListKeys => IsList(x.v[k])
               /\ k \notin MappingKeys \cup ListKeys => x.v[k].t \notin {"map", "list"}
               /\ OmitsOrNulls(x.v[k])
    ELSE IF IsList(x)
    THEN \A n \in DOMAIN x.v : (x.v[n] = None \/ IsDict(x.v[n])) /\ OmitsOrNulls(x.v[n])
    ELSE TRUE

\* a mapping that only omits keys or carries null for them, at any level
Degraded(x) == IsDict(x) /\ OmitsOrNulls(x)

\* every value found in a document
RECURSIVE ValuesIn(_)
ValuesIn(x) ==
    {x} \cup (IF IsDict(x) THEN UNION {ValuesIn(x.v[k]) : k \in DOMAIN x.v}
              ELSE IF IsList(x) THEN UNION {ValuesIn(x.v[n]) : n \in DOMAIN x.v}
              ELSE {})

Supplied == ValuesIn(chosen.info) \cup ValuesIn(chosen.score)

\* the placeholders for what is not known
Sentinels == {StrV(DASH), StrV(HYPHEN), StrV(TEAM1), StrV(TEAM2)}

SnapFields ==
    {"batting_team", "bowling_team", "batter_name", "bowler_name", "wickets", "overs",
     "run_rate"}

NONE_TEXT == <<"N", "o", "n", "e">>

\* C14: for a chosen match whose documents only omit keys or carry null, no
\* derived field of the snapshot is None, each is a value of the document or a
\* sentinel, no score string shows a None placeholder, and nothing is raised.
C14_SnapshotNeverNull ==
    (snap # Pending /\ Degraded(chosen.info) /\ Degraded(chosen.score)) =>
        /\ ~IsRaise(snap)
        /\ \A f \in SnapFields :
                snap.v[f] # None /\ snap.v[f] \in Supplied \cup Sentinels
        /\ snap.v.extras # None
        /\ \A n \in DOMAIN snap.v.score_lines :
                ~Contains(snap.v.score_lines[n], NONE_TEXT)
        /\ ~Contains(snap.v.score_html, NONE_TEXT)

-----------------------------------------------------------------------------
(* The texts the pages show and the addresses they request *)

NO_KEY_LIVE ==
    <<"N", "o", " ", "A", "P", "I", " ", "k", "e", "y", " ", "f", "o", "u", "n", "d",
      ".", " ", "A", "d", "d", " ", "R", "A", "P", "I", "D", "A", "P", "I", "_", "K",
      "E", "Y", " ", "t", "o", " ", "y", "o", "u", "r", " ", ".", "e", "n", "v", " ",
      "f", "i", "l", "e", ".">>
NO_LIVE ==
    <<"N", "o", " ", "l", "i", "v", "e", " ", "m", "a", "t", "c", "h", "e", "s", " ",
      "r", "i", "g", "h", "t", " ", "n", "o", "w", ".", " ", "S", "h", "o", "w", "i",
      "n", "g", " ", "*", "*", "R", "e", "c", "e", "n", "t", " ", "M", "a", "t", "c",
      "h", "e", "s", "*", "*", " ", "i", "n", "s", "t", "e", "a", "d", ".">>
LIVE_API_ERROR ==
    <<"L", "i", "v", "e", " ", "A", "P", "I", " ", "e", "r", "r", "o", "r", " ">>
RECENT_API_ERROR ==
    <<"R", "e", "c", "e", "n", "t", " ", "A", "P", "I", " ", "e", "r", "r", "o", "r",
      " ">>
PREVIEW == <<".", " ", "P", "r", "e", "v", "i", "e", "w", ":", " ">>
NO_MATCHES ==
    <<"N", "o", " ", "m", "a", "t", "c", "h", "e", "s", " ", "t", "o", " ", "d", "i",
      "s", "p", "l", "a", "y", ".">>
API_ERROR == <<"A", "P", "I", " ", "e", "r", "r", "o", "r", " ">>
NO_SCORECARD ==
    <<"N", "o", " ", "s", "c", "o", "r", "e", "c", "a", "r", "d", " ", "a", "v", "a",
      "i", "l", "a", "b", "l", "e", " ", "y", "e", "t", ".">>
NO_KEY_STATS ==
    <<"N", "o", " ", "A", "P", "I", " ", "k", "e", "y", " ", "f", "o", "u", "n", "d",
      ".", " ", "P", "l", "e", "a", "s", "e", " ", "a", "d", "d", " ", "R", "A", "P",
      "I", "D", "A", "P", "I", "_", "K", "E", "Y", " ", "t", "o", " ", "y", "o", "u",
      "r", " ", ".", "e", "n", "v", " ", "f", "i", "l", "e", ".">>
NETWORK_ERROR ==
    <<"N", "e", "t", "w", "o", "r", "k", " ", "e", "r", "r", "o", "r", ":", " ">>
NO_RANKING ==
    <<"N", "o", " ", "r", "a", "n", "k", "i", "n", "g", " ", "d", "a", "t", "a", " ",
      "a", "v", "a", "i", "l", "a", "b", "l", "e", " ", "r", "i", "g", "h", "t", " ",
      "n", "o", "w", ".">>
NO_PLAYERS ==
    <<"N", "o", " ", "p", "l", "a", "y", "e", "r", "s", " ", "f", "o", "u", "n", "d",
      " ", "f", "o", "r", " ", "t", "h", "a", "t", " ", "n", "a", "m", "e", ".">>
NAME_REQUIRED ==
    <<"F", "u", "l", "l", " ", "n", "a", "m", "e", " ", "i", "s", " ", "r", "e", "q",
      "u", "i", "r", "e", "d", ".">>
PLAYER_ADDED == <<"P", "l", "a", "y", "e", "r", " ", "a", "d", "d", "e", "d", ".">>
ENTER_NAME == <<"E", "n", "t", "e", "r", " ", "a", " ", "n", "a", "m", "e", ".">>
NO_PLAYER ==
    <<"N", "o", " ", "p", "l", "a", "y", "e", "r", " ", "f", "o", "u", "n", "d", ".">>
FOUND == <<"F", "o", "u", "n", "d", " ">>
SAME_NAME ==
    <<" ", "p", "l", "a", "y", "e", "r", "s", " ", "w", "i", "t", "h", " ", "t", "h",
      "e", " ", "s", "a", "m", "e", " ", "n", "a", "m", "e", ".", " ", "P", "l", "e",
      "a", "s", "e", " ", "r", "e", "f", "i", "n", "e", " ", "t", "h", "e", " ", "n",
      "a", "m", "e", ".">>
PLAYER_UPDATED ==
    <<"P", "l", "a", "y", "e", "r", " ", "u", "p", "d", "a", "t", "e", "d", ".">>
CONFIRM_DELETION ==
    <<"P", "l", "e", "a", "s", "e", " ", "c", "o", "n", "f", "i", "r", "m", " ", "d",
      "e", "l", "e", "t", "i", "o", "n", ".">>
REFUSING ==
    <<"R", "e", "f", "u", "s", "i", "n", "g", " ", "t", "o", " ", "d", "e", "l", "e",
      "t", "e", ":", " ", "f", "o", "u", "n", "d", " ">>
PLAYER_DELETED ==
    <<"P", "l", "a", "y", "e", "r", " ", "d", "e", "l", "e", "t", "e", "d", ".">>
NO_ROWS ==
    <<"N", "o", " ", "r", "o", "w", "s", " ", "r", "e", "t", "u", "r", "n", "e", "d",
      ".">>
SQL_ERROR == <<"S", "Q", "L", " ", "e", "r", "r", "o", "r", ":", " ">>
EXTRA_FIELDS ==
    <<"T", "h", "i", "s", " ", "q", "u", "e", "r", "y", " ", "m", "a", "y", " ", "r",
      "e", "q", "u", "i", "r", "e", " ", "e", "x", "t", "r", "a", " ", "f", "i", "e",
      "l", "d", "s", "/", "t", "a", "b", "l", "e", "s", " ", "n", "o", "t", " ", "i",
      "n", " ", "t", "h", "e", " ", "b", "a", "s", "e", " ", "s", "c", "h", "e", "m",
      "a", ".", " ", "S", "e", "e", " ", "t", "h", "e", " ", "t", "i", "t", "l", "e",
      " ", "n", "o", "t", "e", ".">>
TIMED_OUT == <<"t", "i", "m", "e", "d", " ", "o", "u", "t">>
EXPECTING_VALUE ==
    <<"E", "x", "p", "e", "c", "t", "i", "n", "g", " ", "v", "a", "l", "u", "e", ":",
      " ", "l", "i", "n", "e", " ", "1", " ", "c", "o", "l", "u", "m", "n", " ", "1",
      " ", "(", "c", "h", "a", "r", " ", "0", ")">>
UNKNOWN_COLUMN ==
    <<"U", "n", "k", "n", "o", "w", "n", " ", "c", "o", "l", "u", "m", "n">>
NOT_FOUND_TEXT == <<"n", "o", "t", " ", "f", "o", "u", "n", "d">>
HTML_TEXT == <<"<", "h", "t", "m", "l", ">">>
JSON_TEXT == <<"{", ".", ".", ".", "}">>
EMPTY_JSON_TEXT == <<"{", "}">>
SECRET == <<"k", "e", "y">>
API_HOST_DEFAULT ==
    <<"c", "r", "i", "c", "b", "u", "z", "z", "-", "c", "r", "i", "c", "k", "e", "t",
      ".", "p", ".", "r", "a", "p", "i", "d", "a", "p", "i", ".", "c", "o", "m">>
LIVE_PATH ==
    <<"/", "m", "a", "t", "c", "h", "e", "s", "/", "v", "1", "/", "l", "i", "v", "e">>
RECENT_PATH ==
    <<"/", "m", "a", "t", "c", "h", "e", "s", "/", "v", "1", "/", "r", "e", "c", "e",
      "n", "t">>
MCENTER_PATH == <<"/", "m", "c", "e", "n", "t", "e", "r", "/", "v", "1", "/">>
RANKINGS_PATH ==
    <<"/", "s", "t", "a", "t", "s", "/", "v", "1", "/", "r", "a", "n", "k", "i", "n",
      "g", "s", "/">>
BATSMEN == <<"b", "a", "t", "s", "m", "e", "n">>
BOWLERS == <<"b", "o", "w", "l", "e", "r", "s">>
SEARCH_PLAYER_PATH ==
    <<"/", "s", "t", "a", "t", "s", "/", "v", "1", "/", "p", "l", "a", "y", "e", "r",
      "/", "s", "e", "a", "r", "c", "h">>
SEARCH_STATS_PATH ==
    <<"/", "s", "t", "a", "t", "s", "/", "v", "1", "/", "s", "e", "a", "r", "c", "h">>
SEARCH_V1_PATH == <<"/", "s", "e", "a", "r", "c", "h", "/", "v", "1">>
SEARCH_V2_PATH == <<"/", "s", "e", "a", "r", "c", "h", "/", "v", "2">>
SCORECARD_KEY == <<"s", "c", "o", "r", "e", "C", "a", "r", "d">>

-----------------------------------------------------------------------------
(* The third-party API as requests.get meets it *)

\* st.cache_data(ttl=60): the time an entry stays valid
TTL == 60

\* the status of a response that carries data
OK == 200

\* the characters of a response body that the error messages quote
RankPreview == 160
ListingPreview == 300
ScorecardPreview == 400

\* how far the clock moves in one step, and where the model stops it
Quantum == 30
MaxTime == 60

\* the button presses on the pages of the store in one behaviour
MaxRuns == 3

\* the length of the long error page the server may answer with
LongBody == 165

\* the rows the players table can hold
MaxRows == 2

NoExc == "none"

\* what json.loads / r.json() make of a body that is no JSON
Undecodable == [t |-> "undecodable"]

\* a response body: its text, and the document the text decodes to
Body(text, json) == [text |-> text, json |-> json]

\* the answer to one request: a response, or a transport failure
Response(status, body) == [kind |-> "response", status |-> status, body |-> body, exc |-> NoExc]
Failure(e) == [kind |-> "failure", status |-> 0, body |-> Body(<<>>, Undecodable), exc |-> e]

\* one outbound HTTP request and its answer
Req(url, param, value, answer) ==
    [url |-> url, param |-> param, value |-> value, answer |-> answer]

EMPTY_JSON == Body(EMPTY_JSON_TEXT, EmptyDict)
GARBAGE == Body(HTML_TEXT, Undecodable)
NOT_FOUND == Body(NOT_FOUND_TEXT, Undecodable)
OVERLOAD == Body([n \in 1..LongBody |-> "x"], Undecodable)
LISTING == Body(JSON_TEXT, RootOfWrapper(Wrapper(StrV(IPL), ListV(<<GoodMatch(1)>>))))
SCORECARD == Body(JSON_TEXT, MkMap([scoreCard |-> EmptyList]))
RANKINGS ==
    Body(JSON_TEXT,
         MkMap([rank |-> ListV(<<MkMap([rank |-> StrV(<<"1">>), name |-> StrV(KOHLI),
                                       country |-> StrV(INDIA)])>>)]))
PLAYERS ==
    Body(JSON_TEXT,
         MkMap([player |-> ListV(<<MkMap([id |-> IntV(18), name |-> StrV(KOHLI),
                                         teamName |-> StrV(INDIA)])>>)]))

\* a result whose only player has no name
NAMELESS == Body(JSON_TEXT, MkMap([player |-> ListV(<<MkMap([id |-> IntV(18)])>>)]))

TIMEOUT == Failure("Timeout")

\* what the listing, match-center, rankings and search endpoints may answer
ListingAnswers ==
    {Response(OK, LISTING), Response(OK, EMPTY_JSON), Response(OK, GARBAGE),
     Response(500, OVERLOAD), TIMEOUT}
McenterAnswers ==
    {Response(OK, SCORECARD), Response(OK, EMPTY_JSON), Response(404, NOT_FOUND), TIMEOUT}
RankingsAnswers ==
    {Response(OK, RANKINGS), Response(OK, EMPTY_JSON), Response(OK, GARBAGE),
     Response(404, NOT_FOUND), Response(500, OVERLOAD), TIMEOUT}
SearchAnswers ==
    {Response(OK, PLAYERS), Response(OK, EMPTY_JSON), Response(OK, GARBAGE),
     Response(OK, NAMELESS), Response(404, NOT_FOUND), TIMEOUT}

\* str(e) of a transport failure
ExcText(e) == TIMED_OUT

\* faulty variant: the whole body is quoted
PreviewMutWhole(text, n) == text

\* text[:n]
Preview(text, n) == SubSeq(text, 1, IF Len(text) < n THEN Len(text) ELSE n)

\* json.loads(txt) inside try/except: None when the text is no JSON
Loads(body) == IF body.json.t = "undecodable" THEN None ELSE body.json

-----------------------------------------------------------------------------
(* st.cache_data: one process-wide store of entries keyed by function and arguments *)

Key(fn, args) == [fn |-> fn, args |-> args]

EmptyCache == [k \in {} |-> None]

\* faulty variant: an entry is still served when it is exactly TTL old
FreshMutInclusive(c, k, t) == k \in DOMAIN c /\ t - c[k].at <= TTL

\* the entry under k is there and has not expired at time t
Fresh(c, k, t) == k \in DOMAIN c /\ t - c[k].at < TTL

Store(c, k, t, v) ==
    [j \in DOMAIN c \cup {k} |-> IF j = k THEN [at |-> t, val |-> v] ELSE c[j]]

\* faulty variant: only the entries of fetch_json are dropped
ClearMutOwnFetch(c) == [k \in {j \in DOMAIN c : j.fn # "fetch_json"} |-> c[k]]

\* st.cache_data.clear()
Clear(c) == EmptyCache

\* the element of a set of one element; {F(y) : y \in {v}} computes v once
Only(S) == CHOOSE r \in S : TRUE

\* a page run under way: the store, and what the run has called, requested,
\* executed and shown so far
Begin(c, tbl, ed) ==
    [cache |-> c, table |-> tbl, edit |-> ed, calls |-> <<>>, reqs |-> <<>>,
     stmts |-> <<>>, msgs |-> <<>>, widgets |-> {}, exc |-> NoExc, val |-> None]

Msg(level, text) == [level |-> level, text |-> text]

\* st.error / st.warning / st.info / st.code ...
Say(x, level, text) == [x EXCEPT !.msgs = Append(@, Msg(level, text))]

\* a widget is rendered
Widget(x, label) == [x EXCEPT !.widgets = @ \cup {label}]

\* an exception leaves the page script
Crash(x, e) == [x EXCEPT !.exc = e]

\* one call of a cached function: its key, whether the store answered it,
\* what it returned or raised, and the requests it sent
Call(k, hit, val, sent) == [key |-> k, hit |-> hit, val |-> val, sent |-> sent]

\* a call of a cached function at time t; body is what running the function
\* would request and return
Cached(x, k, t, body) ==
    IF Fresh(x.cache, k, t)
    THEN [x EXCEPT !.calls = Append(@, Call(k, TRUE, Ret(x.cache[k].val), <<>>)),
                   !.val = x.cache[k].val]
    ELSE IF IsRaise(body.res)
    THEN [x EXCEPT !.calls = Append(@, Call(k, FALSE, body.res, body.reqs)),
                   !.reqs = @ \o body.reqs,
                   !.exc = body.res.exc]
    ELSE [x EXCEPT !.cache = Store(@, k, t, body.res.v),
                   !.calls = Append(@, Call(k, FALSE, body.res, body.reqs)),
                   !.reqs = @ \o body.reqs,
                   !.val = body.res.v]

-----------------------------------------------------------------------------
(* The live page (Live_Match.py 15-36, 150-159, 188-238, 350-364) *)

\* fetch_json(url, headers)
fetch_json(url, o) ==
    [reqs |-> <<Req(url, "", <<>>, o)>>,
     res |-> IF o.kind = "failure" THEN Raise(o.exc)
             ELSE Ret([code |-> o.status, text |-> o.body])]

\* fetch_mcenter(match_id)
fetch_mcenter(match_id, o) ==
    [reqs |-> <<Req(MCENTER_PATH \o PyStr(match_id), "", <<>>, o)>>,
     res |-> IF o.kind = "failure" THEN Raise(o.exc)
             ELSE Ret([code |-> o.status, text |-> o.body])]

\* the arguments of fetch_json are the url and the headers, which hold the key
JsonKey(url, key) == Key("fetch_json", <<url, key>>)
McenterKey(match_id) == Key("fetch_mcenter", <<PyStr(match_id)>>)

\* the matches of a listing as line 199 takes them
LiveMatches(live) ==
    LET data_live == IF live.code = OK THEN Loads(live.text) ELSE None
    IN  IF Truthy(data_live) THEN collect_matches(Or(data_live, EmptyDict)) ELSE Ret(<<>>)

\* the matches of a listing as line 212 takes them
RecentMatches(recent) ==
    LET data_recent == IF recent.code = OK THEN Loads(recent.text) ELSE None
    IN  collect_matches(Or(data_recent, EmptyDict))

\* lines 356-364: what the page shows of the answer x.val
ScorecardShown(x) ==
    IF x.exc # NoExc THEN x
    ELSE IF x.val.code # OK
    THEN Say(Say(x, "error", API_ERROR \o IntText(x.val.code)),
             "code", Preview(x.val.text.text, ScorecardPreview))
    ELSE LET sc == Loads(x.val.text)
         IN  IF ~Truthy(sc) THEN Say(x, "info", NO_SCORECARD)
             ELSE IF IsDict(sc)
             THEN (IF HasKey(sc, "scoreCard") THEN Say(x, "scorecard", <<>>)
                   ELSE Say(x, "info", NO_SCORECARD))
             ELSE IF IsList(sc)
             THEN (IF \E n \in DOMAIN sc.v : sc.v[n] = StrV(SCORECARD_KEY)
                   THEN Crash(x, "AttributeError")
                   ELSE Say(x, "info", NO_SCORECARD))
             ELSE IF IsStr(sc)
             THEN (IF Contains(sc.v, SCORECARD_KEY) THEN Crash(x, "AttributeError")
                   ELSE Say(x, "info", NO_SCORECARD))
             ELSE Crash(x, "TypeError")

\* lines 350-364: the scorecard section, for the button pressed
Scorecard(x, match_id, t, o) ==
    Only({ScorecardShown(x1) :
            x1 \in {Cached(x, McenterKey(match_id), t, fetch_mcenter(match_id, o))}})

\* lines 306-364 for the match m with the details d
Detail(x, m, d, t, o, load) ==
    IF IsRaise(d) THEN Crash(x, d.exc)
    ELSE IF ~Truthy(m.match_id) THEN Say(x, "markdown", d.v.score_html)
    ELSE IF load
    THEN Scorecard(Widget(Say(x, "markdown", d.v.score_html), "Load scorecard"),
                   m.match_id, t, o)
    ELSE Widget(Say(x, "markdown", d.v.score_html), "Load scorecard")

\* lines 226-231: the user picks the option at position n; st.selectbox hands
\* back its label, and next(...) takes the first entry that carries the label
Select(matches, n) ==
    matches[CHOOSE k \in DOMAIN matches :
                /\ matches[k].label = matches[n].label
                /\ \A j \in 1..(k - 1) : matches[j].label # matches[n].label]

\* lines 234-364 for the entry m
Shown(x, m, t, o, load) ==
    Only({Detail(x, m, d, t, o, load) : d \in {details(m.info, m.score)}})

\* lines 225-364: the selector at its default, the details, the scorecard
Chosen(x, matches, t, o, load) ==
    Only({Shown(x, m, t, o, load) : m \in {Select(matches, 1)}})

\* lines 215-223: neither listing has a match
NoMatches(x, live, recent) ==
    IF live.code # OK
    THEN Say(x, "error",
             LIVE_API_ERROR \o IntText(live.code) \o PREVIEW
                \o Preview(live.text.text, ListingPreview))
    ELSE IF recent.code # OK
    THEN Say(x, "error",
             RECENT_API_ERROR \o IntText(recent.code) \o PREVIEW
                \o Preview(recent.text.text, ListingPreview))
    ELSE Say(x, "info", NO_MATCHES)

\* how lines 188-223 end: with the matches to choose from, or with st.stop()
\* or an exception
Found(x, matches) == [x |-> x, matches |-> matches, stop |-> FALSE]
Stop(x) == [x |-> x, matches |-> <<>>, stop |-> TRUE]

\* lines 212-223, with the answer of the recent endpoint in x.val
AfterRecent(x, live) ==
    IF x.exc # NoExc THEN Stop(x)
    ELSE Only({IF IsRaise(m2) THEN Stop(Crash(x, m2.exc))
               ELSE IF Len(m2.v) > 0 THEN Found(x, m2.v)
               ELSE Stop(NoMatches(x, live, x.val)) :
                    m2 \in {RecentMatches(x.val)}})

\* lines 203-223: the fallback to the recent matches
Fallback(x, live, t, key, o2) ==
    Only({AfterRecent(x2, live) :
            x2 \in {Cached(Say(x, "warning", NO_LIVE), JsonKey(RECENT_PATH, key.v), t,
                           fetch_json(RECENT_PATH, o2))}})

\* lines 199-223, with the answer of the live endpoint in x.val
AfterLive(x, t, key, o2) ==
    IF x.exc # NoExc THEN Stop(x)
    ELSE Only({IF IsRaise(m1) THEN Stop(Crash(x, m1.exc))
               ELSE IF Len(m1.v) > 0 THEN Found(x, m1.v)
               ELSE Fallback(x, x.val, t, key, o2) :
                    m1 \in {LiveMatches(x.val)}})

\* lines 188-223: the matches the page lists
Listing(x, t, key, o1, o2) ==
    Only({AfterLive(x1, t, key, o2) :
            x1 \in {Cached(x, JsonKey(LIVE_PATH, key.v), t, fetch_json(LIVE_PATH, o1))}})

\* one run of the page script below the refresh button
LivePage(x, t, key, o1, o2, o3, load) ==
    IF ~Truthy(key) THEN Say(x, "error", NO_KEY_LIVE)
    ELSE Only({IF r.stop THEN r.x ELSE Chosen(r.x, r.matches, t, o3, load) :
                    r \in {Listing(x, t, key, o1, o2)}})

-----------------------------------------------------------------------------
(* The player stats page (Player_Stats.py 17-25, 55-121, 147-197) *)

Pair(data, err) == [data |-> data, err |-> err]

\* fetch_rankings(host, key, endpoint, fmt); modern tells whether the JSON
\* error of r.json() is a requests.RequestException (requests 2.27 and later)
fetch_rankings(endpoint, f, o, modern) ==
    [reqs |-> <<Req(RANKINGS_PATH \o endpoint, "formatType", f, o)>>,
     res |-> IF o.kind = "failure"
             THEN Ret(Pair(None, StrV(NETWORK_ERROR \o ExcText(o.exc))))
             ELSE IF o.status # OK
             THEN Ret(Pair(None, StrV(API_ERROR \o IntText(o.status) \o <<":", " ">>
                                        \o Preview(o.body.text, RankPreview))))
             ELSE IF o.body.json.t # "undecodable" THEN Ret(Pair(o.body.json, None))
             ELSE IF modern THEN Ret(Pair(None, StrV(NETWORK_ERROR \o EXPECTING_VALUE)))
             ELSE Raise("JSONDecodeError")]

RankingsKey(host, key, endpoint, f) == Key("fetch_rankings", <<host, key, endpoint, f>>)

\* _normalize_rankings(data).empty, for a mapping: no list of rows, or rows
\* without any column
RankingsEmpty(data) ==
    LET items == Or(Or(Or(Get(data, "rank"), Get(data, "ranks")), Get(data, "list")),
                    EmptyList)
    IN  ~(IsList(items) /\ Truthy(items)) \/ \A n \in DOMAIN items.v : items.v[n] = EmptyDict

\* faulty variant: the newest path is tried first
SearchCandidatesMutNewestFirst ==
    << <<SEARCH_V2_PATH, "query">>, <<SEARCH_PLAYER_PATH, "plrN">>,
       <<SEARCH_STATS_PATH, "q">>, <<SEARCH_V1_PATH, "q">> >>

\* the candidates of search_players: url and the name of the query parameter
SearchCandidates ==
    << <<SEARCH_PLAYER_PATH, "plrN">>, <<SEARCH_STATS_PATH, "q">>,
       <<SEARCH_V1_PATH, "q">>, <<SEARCH_V2_PATH, "query">> >>

\* lines 107-112: the players mapped from items, or the exception of p.get
RECURSIVE MapPlayers(_)
MapPlayers(items) ==
    IF Len(items) = 0 THEN Ret(<<>>)
    ELSE IF ~IsDict(Head(items)) THEN Raise("AttributeError")
    ELSE LET p == Head(items)
             pid == Or(Or(Or(Get(p, "id"), Get(p, "playerId")), Get(p, "idPlayer")),
                       Get(p, "pid"))
             pname == Or(Or(Get(p, "name"), Get(p, "fullName")), Get(p, "playerName"))
             pcountry == Or(Or(Or(Get(p, "country"), Get(p, "teamName")), Get(p, "team")),
                            StrV(<<>>))
             rest == MapPlayers(Tail(items))
         IN  IF IsRaise(rest) THEN rest
             ELSE IF Truthy(pid) /\ Truthy(pname)
             THEN Ret(<<MapV([id |-> StrV(PyStr(pid)), name |-> StrV(PyStr(pname)),
                              country |-> StrV(PyStr(pcountry))])>> \o rest.v)
             ELSE rest

\* lines 93-118 for one answered request: the players to return, or nothing
\* when the loop goes on to the next candidate
Variant(o) ==
    IF o.kind = "failure" \/ o.status # OK \/ o.body.json.t = "undecodable" THEN <<>>
    ELSE IF ~IsDict(o.body.json) THEN <<>>
    ELSE LET data == o.body.json
             items == Or(Or(Or(Or(Or(Get(data, "player"), Get(data, "players")),
                                  Get(data, "list")), Get(data, "results")),
                            Get(data, "result")), EmptyList)
         IN  IF IsList(items) /\ Truthy(items)
             THEN LET out == MapPlayers(items.v)
                  IN  IF IsRaise(out) THEN <<>> ELSE out.v
             ELSE <<>>

\* the loop of search_players over the candidates left, each answered by the
\* answer at the same place of outs
RECURSIVE SearchLoop(_, _, _, _)
SearchLoop(cands, name, outs, reqs) ==
    IF Len(cands) = 0 THEN [reqs |-> reqs, res |-> Ret(Pair(EmptyList, None))]
    ELSE LET sent == Append(reqs, Req(Head(cands)[1], Head(cands)[2], name, Head(outs)))
             out == Variant(Head(outs))
         IN  IF Len(out) > 0 THEN [reqs |-> sent, res |-> Ret(Pair(ListV(out), None))]
             ELSE SearchLoop(Tail(cands), name, Tail(outs), sent)

\* search_players(host, key, name)
search_players(name, outs) == SearchLoop(SearchCandidates, name, outs, <<>>)

SearchKey(host, key, name) == Key("search_players", <<host, key, name>>)

\* s.strip()
RECURSIVE Strip(_)
Strip(s) ==
    IF Len(s) > 0 /\ Head(s) = " " THEN Strip(Tail(s))
    ELSE IF Len(s) > 0 /\ s[Len(s)] = " " THEN Strip(SubSeq(s, 1, Len(s) - 1))
    ELSE s

\* fmt_map
fmt_map == [Test |-> LOWER_TEST, ODI |-> <<"o", "d", "i">>, T20I |-> <<"t", "2", "0", "i">>]

\* lines 164-169: what the page shows of the answer x.val
RankingsShown(x) ==
    IF x.exc # NoExc THEN x
    ELSE IF Truthy(x.val.err) THEN Say(x, "error", x.val.err.v)
    ELSE LET data == Or(x.val.data, EmptyDict)
         IN  IF ~IsDict(data) THEN Crash(x, "AttributeError")
             ELSE IF RankingsEmpty(data) THEN Say(x, "info", NO_RANKING)
             ELSE Say(x, "dataframe", <<>>)

\* lines 147-169: the rankings section
RankingsSection(x, t, key, role, fmt_label, o, modern) ==
    LET endpoint == IF role = "Batsmen" THEN BATSMEN ELSE BOWLERS
        f == fmt_map[fmt_label]
    IN  Only({RankingsShown(x1) :
                x1 \in {Cached(x, RankingsKey(API_HOST_DEFAULT, key.v, endpoint, f), t,
                               fetch_rankings(endpoint, f, o, modern))}})

\* lines 184-197: what the page shows of the players x.val; the Load Player
\* Stats button is rendered with the players found, in a run in which it
\* cannot have been pressed
PlayersShown(x) ==
    LET x2 == IF Truthy(x.val.err) THEN Say(x, "error", x.val.err.v)
              ELSE IF x.val.data = EmptyList THEN Say(x, "warning", NO_PLAYERS)
              ELSE x
    IN  IF Truthy(x.val.data) THEN Widget(x2, "Load Player Stats") ELSE x2

\* lines 176-197: the search form
SearchSection(x, t, key, submitted, query, outs) ==
    IF submitted /\ Len(Strip(query)) > 0
    THEN Only({PlayersShown(x1) :
                x1 \in {Cached(Widget(x, "Search"),
                               SearchKey(API_HOST_DEFAULT, key.v, Strip(query)), t,
                               search_players(Strip(query), outs))}})
    ELSE Widget(x, "Search")

\* one run of the page script
StatsPage(x, t, key, role, fmt_label, submitted, query, o, modern, outs) ==
    IF ~Truthy(key) THEN Say(x, "error", NO_KEY_STATS)
    ELSE Only({IF x1.exc # NoExc THEN x1
               ELSE SearchSection(x1, t, key, submitted, query, outs) :
                    x1 \in {RankingsSection(x, t, key, role, fmt_label, o, modern)}})

-----------------------------------------------------------------------------
(* The players page (CRUD.py) and the analytics page (SQL_Analytics.py 386-396) *)

Row(id, name) == [player_id |-> id, full_name |-> name]

\* one SQL statement sent to the store
Stmt(verb, name) == [verb |-> verb, name |-> name]

Exec(x, verb, name) == [x EXCEPT !.stmts = Append(@, Stmt(verb, name))]

\* the rows fetch_by_name(name) selects
Matching(tbl, name) == {r \in tbl : r.full_name = Strip(name)}

NoEdit == [t |-> "noedit"]

\* INSERT INTO players: the new row takes an id that is not in use
Insert(tbl, name) ==
    tbl \cup {Row(CHOOSE n \in 1..(Cardinality(tbl) + 1) : \A r \in tbl : r.player_id # n,
                  name)}

\* UPDATE players SET full_name = new WHERE full_name = old
Update(tbl, old, new) ==
    {IF r.full_name = old THEN Row(r.player_id, new) ELSE r : r \in tbl}

\* DELETE FROM players WHERE full_name = name
Delete(tbl, name) == {r \in tbl : r.full_name # name}

\* err(f"Found {len(rows)} players with the same name. ...")
FoundSeveral(rows) == FOUND \o NatText(Cardinality(rows)) \o SAME_NAME

\* lines 24-44
AddSection(x, pressed, name) ==
    LET x0 == Widget(x, "Save Player")
    IN  IF pressed # "Save Player" THEN x0
        ELSE IF Len(Strip(name)) = 0 THEN Say(x0, "error", NAME_REQUIRED)
        ELSE Say([Exec(x0, "INSERT", Strip(name)) EXCEPT
                        !.table = Insert(x0.table, Strip(name))],
                 "success", PLAYER_ADDED)

\* lines 49-62
ViewSection(x, pressed, name) ==
    LET x0 == Widget(x, "Load Player")
    IN  IF pressed # "Load Player" THEN x0
        ELSE IF Len(Strip(name)) = 0 THEN Say(x0, "error", ENTER_NAME)
        ELSE LET x1 == Exec(x0, "SELECT", Strip(name))
                 rows == Matching(x0.table, name)
             IN  IF rows = {} THEN Say(x1, "error", NO_PLAYER)
                 ELSE IF Cardinality(rows) > 1
                 THEN Say(Say(x1, "error", FoundSeveral(rows)), "table", <<>>)
                 ELSE Say(x1, "json", <<>>)

\* lines 67-80
FetchSection(x, pressed, name) ==
    LET x0 == Widget(x, "Fetch for Edit")
    IN  IF pressed # "Fetch for Edit" THEN x0
        ELSE IF Len(Strip(name)) = 0 THEN Say(x0, "error", ENTER_NAME)
        ELSE LET x1 == Exec(x0, "SELECT", Strip(name))
                 rows == Matching(x0.table, name)
             IN  IF rows = {} THEN Say(x1, "error", NO_PLAYER)
                 ELSE IF Cardinality(rows) > 1
                 THEN Say(Say(x1, "error", FoundSeveral(rows)), "table", <<>>)
                 ELSE [x1 EXCEPT !.edit = [t |-> "edit", row |-> CHOOSE r \in rows : TRUE,
                                           lookup |-> Strip(name)]]

\* lines 82-113
EditSection(x, pressed, e_name) ==
    IF x.edit = NoEdit THEN x
    ELSE LET x0 == Widget(x, "Save Changes")
         IN  IF pressed # "Save Changes" THEN x0
             ELSE IF Len(Strip(e_name)) = 0 THEN Say(x0, "error", NAME_REQUIRED)
             ELSE Say([Exec(x0, "UPDATE", x0.edit.lookup) EXCEPT
                            !.table = Update(x0.table, x0.edit.lookup, Strip(e_name)),
                            !.edit = NoEdit],
                      "success", PLAYER_UPDATED)

\* lines 118-135
DeleteSection(x, pressed, name, d_confirm) ==
    LET x0 == Widget(x, "Delete Player")
    IN  IF pressed # "Delete Player" THEN x0
        ELSE IF Len(Strip(name)) = 0 THEN Say(x0, "error", ENTER_NAME)
        ELSE IF ~d_confirm THEN Say(x0, "error", CONFIRM_DELETION)
        ELSE LET x1 == Exec(x0, "SELECT", Strip(name))
                 rows == Matching(x0.table, name)
             IN  IF rows = {} THEN Say(x1, "error", NO_PLAYER)
                 ELSE IF Cardinality(rows) > 1
                 THEN Say(Say(x1, "error", REFUSING \o NatText(Cardinality(rows)) \o SAME_NAME),
                          "table", <<>>)
                 ELSE Say([Exec(x1, "DELETE", Strip(name)) EXCEPT
                                !.table = Delete(x1.table, Strip(name))],
                          "success", PLAYER_DELETED)

\* the page down to the View, the Update and the Delete section
ThroughView(x, pressed, name) ==
    Only({ViewSection(x1, pressed, name) : x1 \in {AddSection(x, pressed, name)}})
ThroughFetch(x, pressed, name) ==
    Only({FetchSection(x2, pressed, name) : x2 \in {ThroughView(x, pressed, name)}})
ThroughEdit(x, pressed, name) ==
    Only({EditSection(x3, pressed, name) : x3 \in {ThroughFetch(x, pressed, name)}})

\* one run of the players page: the sections in the order of the script
CrudPage(x, pressed, name, d_confirm) ==
    Only({DeleteSection(x4, pressed, name, d_confirm) :
            x4 \in {ThroughEdit(x, pressed, name)}})

\* one run of the analytics page; result is what the store makes of the query
SqlPage(x, pressed, result) ==
    LET x0 == Widget(x, "Run query")
    IN  IF pressed # "Run query" THEN x0
        ELSE LET x1 == Exec(x0, "SELECT", <<>>)
             IN  IF result = "error"
                 THEN Say(Say(x1, "error", SQL_ERROR \o UNKNOWN_COLUMN), "warning", EXTRA_FIELDS)
                 ELSE IF result = "empty" THEN Say(x1, "info", NO_ROWS)
                 ELSE Say(x1, "dataframe", <<>>)

-----------------------------------------------------------------------------
(* The application: the pages a user opens and the buttons they press *)

Roles == {"Batsmen", "Bowlers"}
FormatLabels == {"Test"}
Queries == {<<" ">>, <<" ">> \o KOHLI}
Names == {<<>>, <<" ">> \o KOHLI, STARC}
QueryResults == {"rows", "empty", "error"}

\* the store when the behaviour starts: empty, one player, two of the same name
Tables == {{}, {Row(1, KOHLI)}, {Row(1, KOHLI), Row(2, KOHLI)}}

\* the answers to the requests of one search: the candidates before the
\* winner all fail in the same way, the winner finds the player, and no
\* candidate wins when the winner lies past the last one
SearchRuns ==
    {[n \in 1..Len(SearchCandidates) |-> IF n < winner THEN failing ELSE Response(OK, PLAYERS)] :
        winner \in 1..(Len(SearchCandidates) + 1),
        failing \in SearchAnswers \ {Response(OK, PLAYERS)}}

\* how the API answers during one behaviour: every endpoint as documented
Healthy ==
    [live |-> Response(OK, LISTING), recent |-> Response(OK, LISTING),
     mcenter |-> Response(OK, SCORECARD), rankings |-> Response(OK, RANKINGS),
     modern |-> TRUE, search |-> [n \in 1..Len(SearchCandidates) |-> Response(OK, PLAYERS)]]

\* ... or with the answers of one page's endpoints replaced
Servers ==
    {[Healthy EXCEPT !.live = o1, !.recent = o2] :
        o1 \in ListingAnswers, o2 \in ListingAnswers}
    \cup {[Healthy EXCEPT !.mcenter = o] : o \in McenterAnswers}
    \cup {[Healthy EXCEPT !.rankings = o] : o \in RankingsAnswers}
    \cup {[Healthy EXCEPT !.rankings = Response(OK, GARBAGE), !.modern = FALSE]}
    \cup {[Healthy EXCEPT !.search = outs] : outs \in SearchRuns}

\* what an interaction left behind: the page shown, the button pressed, the
\* time (on the pages of the store, the number of the press), and what the run called, requested, executed and showed
Interaction(page, act, t, role, x, pending, cleared) ==
    [page |-> page, act |-> act, at |-> t, role |-> role, calls |-> x.calls,
     reqs |-> x.reqs, stmts |-> x.stmts, msgs |-> x.msgs, widgets |-> x.widgets,
     exc |-> x.exc, pending |-> pending, cleared |-> cleared]

\* nobody has opened a page yet
Home(t) == Interaction("home", "open", t, "", Begin(EmptyCache, {}, NoEdit), FALSE, EmptyCache)

IdleNet == now = Unset /\ cache = Unset /\ API_KEY = Unset /\ server = Unset
IdleStore == table = Unset /\ edit = Unset /\ nruns = Unset
IdleShared == session = Unset /\ effect = Unset
IdleSelector == choice = Unset

\* the pages that call the API
InitNet ==
    /\ now = 0
    /\ cache = EmptyCache
    /\ API_KEY \in {None, StrV(SECRET)}
    /\ server \in Servers
    /\ API_KEY = None => server = Healthy
    /\ run = Home(0)
    /\ IdleStore /\ IdleShared /\ IdleSelector
    /\ IdleFormat /\ IdleOvers /\ IdleInnings /\ IdleFlatten
    /\ IdleRender /\ IdleDetails

\* the pages that query the store
InitStore ==
    /\ table \in Tables
    /\ edit = NoEdit
    /\ run = Home(0)
    /\ nruns = 0
    /\ IdleNet /\ IdleShared /\ IdleSelector
    /\ IdleFormat /\ IdleOvers /\ IdleInnings /\ IdleFlatten
    /\ IdleRender /\ IdleDetails

\* the page run x ends the interaction act on page
Finish(page, act, t, role, x) ==
    /\ cache' = x.cache
    /\ table' = x.table
    /\ edit' = x.edit
    /\ run' = Interaction(page, act, t, role, x, FALSE, EmptyCache)
    /\ UNCHANGED <<now, API_KEY, server, session, effect, choice>>
    /\ UNCHANGED <<info, fmt, overs, ovf, score, t1s, t2s, cur, root, flat,
                   renderVars, snapVars>>

\* the user acts again some time after the last interaction
MayAct == ~run.pending /\ (run.page = "home" \/ now > run.at)

\* time passes
Tick ==
    /\ ~run.pending
    /\ now + Quantum <= MaxTime
    /\ now' = now + Quantum
    /\ UNCHANGED <<cache, API_KEY, server, table, edit, run, nruns, session, effect, choice>>
    /\ UNCHANGED <<info, fmt, overs, ovf, score, t1s, t2s, cur, root, flat,
                   renderVars, snapVars>>

\* the script of the live page runs: the page is opened or re-rendered, Load
\* scorecard is pressed on it, or st.rerun() has asked for the run
RunLive ==
    \E act \in {"open", "Load scorecard", "rerun"} :
        /\ IF act = "rerun" THEN run.pending ELSE MayAct
        /\ act = "Load scorecard" => run.page = "live" /\ "Load scorecard" \in run.widgets
        /\ \E x \in {LivePage(Widget(Begin(cache, table, edit), "Refresh data"), now, API_KEY,
                              server.live, server.recent, server.mcenter,
                              act = "Load scorecard")} :
                Finish("live", act, now, "", x)
        /\ UNCHANGED nruns

\* Refresh data is pressed: lines 16-19 end the run with st.rerun()
Refresh ==
    /\ MayAct
    /\ run.page = "live" /\ "Refresh data" \in run.widgets
    /\ cache' = Clear(cache)
    /\ run' = Interaction("live", "Refresh data", now, "",
                          Widget(Begin(cache, table, edit), "Refresh data"), TRUE, cache)
    /\ UNCHANGED <<now, API_KEY, server, table, edit, nruns, session, effect, choice>>
    /\ UNCHANGED <<info, fmt, overs, ovf, score, t1s, t2s, cur, root, flat,
                   renderVars, snapVars>>

\* the script of the stats page runs: the page is opened or a role is picked,
\* Search is pressed, or Load Player Stats is pressed; the run that Load Player
\* Stats starts has submitted = False and players = [], so lines 191-255 are
\* not reached
RunStats ==
    \E act \in {"open", "Search", "Load Player Stats"}, role \in Roles, query \in Queries,
       fmt_label \in FormatLabels :
        /\ MayAct
        /\ act # "open" => run.page = "stats" /\ act \in run.widgets /\ role = run.role
        /\ \E x \in {StatsPage(Begin(cache, table, edit), now, API_KEY, role, fmt_label,
                               act = "Search", query, server.rankings, server.modern,
                               server.search)} :
                Finish("stats", act, now, role, x)
        /\ UNCHANGED nruns

NextNet == Tick \/ RunLive \/ Refresh \/ RunStats

SpecNet == InitNet /\ [][NextNet]_vars

\* a run of the players page with the button pressed, if any
CrudRun(act, name, d_confirm) ==
    /\ nruns < MaxRuns
    /\ (act = "Save Player" /\ Len(Strip(name)) > 0) => Cardinality(table) < MaxRows
    /\ \E x \in {CrudPage(Begin(cache, table, edit), act, name, d_confirm)} :
            Finish("crud", act, nruns + 1, "", x)
    /\ nruns' = nruns + 1

OpenCrud == CrudRun("open", <<>>, FALSE)

Pressable(label) == run.page = "crud" /\ label \in run.widgets

SavePlayer == Pressable("Save Player") /\ \E name \in Names : CrudRun("Save Player", name, FALSE)
LoadPlayer == Pressable("Load Player") /\ \E name \in Names : CrudRun("Load Player", name, FALSE)
FetchForEdit ==
    Pressable("Fetch for Edit") /\ \E name \in Names : CrudRun("Fetch for Edit", name, FALSE)
SaveChanges ==
    Pressable("Save Changes") /\ \E name \in Names : CrudRun("Save Changes", name, FALSE)
DeletePlayer ==
    /\ Pressable("Delete Player")
    /\ \E name \in Names, d_confirm \in BOOLEAN : CrudRun("Delete Player", name, d_confirm)

\* a run of the analytics page
SqlRun(act, result) ==
    /\ nruns < MaxRuns
    /\ \E x \in {SqlPage(Begin(cache, table, edit), act, result)} :
            Finish("sql", act, nruns + 1, "", x)
    /\ nruns' = nruns + 1

OpenSql == SqlRun("open", "rows")

RunQuery ==
    /\ run.page = "sql" /\ "Run query" \in run.widgets
    /\ \E result \in QueryResults : SqlRun("Run query", result)

NextStore ==
    \/ OpenCrud \/ SavePlayer \/ LoadPlayer \/ FetchForEdit \/ SaveChanges \/ DeletePlayer
    \/ OpenSql \/ RunQuery

SpecStore == InitStore /\ [][NextStore]_vars

-----------------------------------------------------------------------------
(* Several browser sessions on one players table (CRUD.py, db_connection.py
   8-33): each statement runs on a connection of its own with autocommit, so
   the statements of different sessions take effect one by one, in any order *)

Sessions == {"a", "b"}

\* a session whose script is not running and that has nothing fetched to edit
Resting == [pc |-> "idle", name |-> <<>>, found |-> {}, edit |-> NoEdit]

\* what a step of a handler left behind: the session and the button, the
\* statements sent, the name and the confirmation entered, the rows the lookup
\* returned, the rows of the table that are gone or altered, and the edit
\* state the session had
Effect(s, act, stmts, name, d_confirm, found, before, after, ed) ==
    [by |-> s, act |-> act, stmts |-> stmts, name |-> name, confirm |-> d_confirm,
     found |-> found, changed |-> before \ after, fetched |-> ed]

NoEffect == Effect("", "open", <<>>, <<>>, FALSE, {}, {}, {}, NoEdit)

InitShared ==
    /\ table \in Tables
    /\ session = [s \in Sessions |-> Resting]
    /\ effect = NoEffect
    /\ nruns = 0
    /\ edit = Unset /\ run = Unset
    /\ IdleNet /\ IdleSelector
    /\ IdleFormat /\ IdleOvers /\ IdleInnings /\ IdleFlatten
    /\ IdleRender /\ IdleDetails

\* the script of session s is not running: a button can be pressed
Ready(s) == session[s].pc = "idle"

\* the button act is pressed in session s and the page script runs to its end
Handled(s, act, name, d_confirm) ==
    /\ nruns < MaxRuns
    /\ (act = "Save Player" /\ Len(Strip(name)) > 0) => Cardinality(table) < MaxRows
    /\ \E x \in {CrudPage(Begin(EmptyCache, table, session[s].edit), act, name, d_confirm)} :
            /\ table' = x.table
            /\ session' = [session EXCEPT ![s].edit = x.edit]
            /\ effect' = Effect(s, act, x.stmts, name, d_confirm,
                                IF Len(x.stmts) > 0 /\ x.stmts[1].verb = "SELECT"
                                THEN Matching(table, name) ELSE {},
                                table, x.table, session[s].edit)
    /\ nruns' = nruns + 1
    /\ UNCHANGED <<now, cache, API_KEY, server, edit, run, choice>>
    /\ UNCHANGED <<info, fmt, overs, ovf, score, t1s, t2s, cur, root, flat,
                   renderVars, snapVars>>

\* lines 127-133 find exactly one row: the DELETE of line 134 comes next
DeleteIsDue(name, d_confirm) ==
    Len(Strip(name)) > 0 /\ d_confirm /\ Cardinality(Matching(table, name)) = 1

SharedSavePlayer(s) ==
    Ready(s) /\ \E name \in Names : Handled(s, "Save Player", name, FALSE)
SharedLoadPlayer(s) ==
    Ready(s) /\ \E name \in Names : Handled(s, "Load Player", name, FALSE)
SharedFetchForEdit(s) ==
    Ready(s) /\ \E name \in Names : Handled(s, "Fetch for Edit", name, FALSE)

\* Save Changes is rendered while the session has a row fetched to edit
SharedSaveChanges(s) ==
    /\ Ready(s) /\ session[s].edit # NoEdit
    /\ \E name \in Names : Handled(s, "Save Changes", name, FALSE)

\* Delete Player is pressed and the run ends without a DELETE: the name is
\* blank, the box is not checked, or the lookup finds no row or several
DeleteRefused(s) ==
    /\ Ready(s)
    /\ \E name \in Names, d_confirm \in BOOLEAN :
            ~DeleteIsDue(name, d_confirm) /\ Handled(s, "Delete Player", name, d_confirm)

\* Delete Player is pressed and the lookup of line 127 finds one row
DeleteSelect(s) ==
    \E name \in Names :
        /\ Ready(s)
        /\ nruns < MaxRuns
        /\ DeleteIsDue(name, TRUE)
        /\ session' = [session EXCEPT ![s].pc = "delete", ![s].name = Strip(name),
                                      ![s].found = Matching(table, name)]
        /\ effect' = Effect(s, "Delete Player", <<Stmt("SELECT", Strip(name))>>, name, TRUE,
                            Matching(table, name), table, table, session[s].edit)
        /\ nruns' = nruns + 1
        /\ UNCHANGED <<now, cache, API_KEY, server, table, edit, run, choice>>
        /\ UNCHANGED <<info, fmt, overs, ovf, score, t1s, t2s, cur, root, flat,
                       renderVars, snapVars>>

\* the DELETE of line 134, on a new connection
DeleteExecute(s) ==
    /\ session[s].pc = "delete"
    /\ table' = Delete(table, session[s].name)
    /\ session' = [session EXCEPT ![s].pc = "idle", ![s].name = <<>>, ![s].found = {}]
    /\ effect' = Effect(s, "Delete Player", <<Stmt("DELETE", session[s].name)>>,
                        session[s].name, TRUE, session[s].found, table,
                        Delete(table, session[s].name), session[s].edit)
    /\ UNCHANGED <<now, cache, API_KEY, server, edit, run, nruns, choice>>
    /\ UNCHANGED <<info, fmt, overs, ovf, score, t1s, t2s, cur, root, flat,
                   renderVars, snapVars>>

NextShared ==
    \E s \in Sessions :
        \/ SharedSavePlayer(s) \/ SharedLoadPlayer(s) \/ SharedFetchForEdit(s)
        \/ SharedSaveChanges(s) \/ DeleteRefused(s) \/ DeleteSelect(s) \/ DeleteExecute(s)

SpecShared == InitShared /\ [][NextShared]_vars

-----------------------------------------------------------------------------
(* The match selector of the live page (Live_Match.py 225-238) *)

\* a match of other teams and another format than GoodMatch
OtherMatch(id) ==
    MkMap([matchInfo |-> MkMap([matchId |-> IntV(id), team1 |-> TeamDoc(AUSTRALIA, AUS),
                                team2 |-> TeamDoc(INDIA, IND), matchFormat |-> StrV(TEST)]),
           matchScore |-> GoodScore(id)])

\* listings of one series with up to MaxList matches; GoodMatch(1) and
\* GoodMatch(2) are two matches of the same teams in the same format, and so
\* are OtherMatch(3) and OtherMatch(4)
SelectorRoots ==
    {RootOfWrapper(Wrapper(n, ms)) :
        n \in {Absent, StrV(IPL)},
        ms \in ListsUpTo({GoodMatch(1), GoodMatch(2), OtherMatch(3), OtherMatch(4)}, MaxList)}

\* what the page shows below the selector for the entry m
Snapshot(m) ==
    [match_id |-> m.match_id, series |-> m.series, format |-> m.format,
     details |-> details(m.info, m.score)]

InitSelector ==
    /\ root \in SelectorRoots
    /\ flat = Pending
    /\ choice = 0
    /\ chosen = Pending
    /\ snap = Pending
    /\ IdleNet /\ IdleStore /\ IdleShared
    /\ run = Unset
    /\ IdleFormat /\ IdleOvers /\ IdleInnings
    /\ IdleRender

\* the user picks an option of the selector and the page shows its details
SelectMatch ==
    /\ flat # Pending
    /\ ~IsRaise(flat)
    /\ \E n \in 1..Len(flat.v) :
            /\ choice' = n
            /\ \E m \in {Select(flat.v, n)} :
                    chosen' = m /\ snap' = Snapshot(m)
    /\ UNCHANGED <<now, cache, API_KEY, server, table, edit, run, nruns, session, effect>>
    /\ UNCHANGED <<info, fmt, overs, ovf, score, t1s, t2s, cur, root, flat, renderVars>>

NextSelector == CallCollectMatches \/ SelectMatch

SpecSelector == InitSelector /\ [][NextSelector]_vars

-----------------------------------------------------------------------------
(* C15: the cache in front of the rankings fetch *)

\* the calls of fn in the interaction r
CallsOf(r, fn) == {r.calls[n] : n \in {m \in DOMAIN r.calls : r.calls[m].key.fn = fn}}

\* the requests the interaction r sent to an address that starts with path
RequestsTo(r, path) == {n \in DOMAIN r.reqs : StartsWith(r.reqs[n].url, path)}

\* the call returned, rather than raised
Returned(c) == c.val.t = "ret"

\* C15 as stated: of two calls of fetch_rankings with the same arguments that
\* return, made less than 60 time-units apart with no refresh between them,
\* the second is answered from the cache with the result of the first and
\* sends no request
C15_SecondOfTwoCallsIsCached ==
    [][(run' # run /\ run.page = "stats" /\ run'.page = "stats" /\ run'.at - run.at < TTL)
        => \A c1 \in CallsOf(run, "fetch_rankings"), c2 \in CallsOf(run', "fetch_rankings") :
                (c1.key = c2.key /\ Returned(c1) /\ Returned(c2))
                    => c2.hit /\ c2.val = c1.val /\ RequestsTo(run', RANKINGS_PATH) = {}]_vars

\* C15, amended: a call of fetch_rankings is answered from the cache exactly
\* when a result was stored under the same arguments less than 60 time-units
\* before and no refresh has dropped it; the call then returns the stored
\* result (data or error) and sends no request. Every other call sends
\* exactly one request and, when it returns, stores what it returns.
C15_CachedWhileEntryIsYoung ==
    [][run' # run
        => \A c \in CallsOf(run', "fetch_rankings") :
                LET young == c.key \in DOMAIN cache /\ now - cache[c.key].at < TTL
                IN  /\ c.hit <=> young
                    /\ c.hit => /\ c.val = Ret(cache[c.key].val)
                                /\ RequestsTo(run', RANKINGS_PATH) = {}
                    /\ ~c.hit => /\ Cardinality(RequestsTo(run', RANKINGS_PATH)) = 1
                                 /\ Returned(c)
                                        => cache'[c.key] = [at |-> now, val |-> c.val.v]]_vars

\* a call of fetch_rankings was answered with an error stored some time before
C15_Witness ==
    \E c \in CallsOf(run, "fetch_rankings") :
        /\ c.hit /\ Returned(c) /\ c.val.v.err # None
        /\ cache[c.key].at < run.at

-----------------------------------------------------------------------------
(* C16: the refresh button *)

\* the functions that have an entry in the store c
Functions(c) == {k.fn : k \in DOMAIN c}

\* C16: pressing Refresh data leaves no entry of any cached fetch in the
\* store, whatever functions stored them and however young they are; the run
\* that follows calls the network for everything it fetches, and so does any
\* later call that finds no entry under its arguments
C16_RefreshEmptiesTheCache ==
    [][/\ (run' # run /\ run'.act = "Refresh data") => DOMAIN cache' = {}
       /\ run' # run
            => \A n \in DOMAIN run'.calls :
                    (run.pending \/ run'.calls[n].key \notin DOMAIN cache)
                        => ~run'.calls[n].hit /\ Len(run'.calls[n].sent) >= 1]_vars

\* Refresh data was pressed while the store held entries of the rankings
\* fetch and of the listing fetch, one of them stored less than 60
\* time-units before
C16_Witness ==
    /\ run.act = "Refresh data"
    /\ {"fetch_rankings", "fetch_json"} \subseteq Functions(run.cleared)
    /\ \E k \in DOMAIN run.cleared : now - run.cleared[k].at < TTL
    /\ DOMAIN cache = {}

-----------------------------------------------------------------------------
(* C17: the calls of one interaction *)

\* C17: an interaction sends at most one request to the API and at most one
\* statement to the store
C17_AtMostOneCallPerInteraction == Len(run.reqs) <= 1 /\ Len(run.stmts) <= 1

-----------------------------------------------------------------------------
(* C18: the rankings fetch and an answer that is not a 200 *)

\* the text API error S: P for the status S and the preview P
ApiErrorText(status, preview) == API_ERROR \o IntText(status) \o <<":", " ">> \o preview

\* the first characters of the text, n of them at most
FirstOf(text, n) == [i \in 1..(IF Len(text) < n THEN Len(text) ELSE n) |-> text[i]]

\* the page shows the text at the level
Shows(r, level, text) == \E n \in DOMAIN r.msgs : r.msgs[n] = Msg(level, text)

\* C18: a call of fetch_rankings that receives a response with a status S
\* other than 200 raises nothing and returns no data with an error text that
\* holds S and the first 160 characters of the body at most; the page shows
\* that text as an error and raises nothing either
C18_RankingsErrorIsReturnedAndShown ==
    \A c \in CallsOf(run, "fetch_rankings") :
        (~c.hit /\ c.sent[1].answer.kind = "response" /\ c.sent[1].answer.status # OK)
            => LET status == c.sent[1].answer.status
                   body == c.sent[1].answer.body.text
               IN  /\ Returned(c)
                   /\ c.val.v.data = None
                   /\ IsStr(c.val.v.err)
                   /\ c.val.v.err.v = ApiErrorText(status, FirstOf(body, RankPreview))
                   /\ Contains(c.val.v.err.v, IntText(status))
                   /\ Len(c.val.v.err.v) <= Len(ApiErrorText(status, <<>>)) + RankPreview
                   /\ run.exc = NoExc
                   /\ Shows(run, "error", c.val.v.err.v)

\* the rankings endpoint answered 500 with a body of more than 160 characters
C18_Witness ==
    \E c \in CallsOf(run, "fetch_rankings") :
        /\ ~c.hit
        /\ c.sent[1].answer.kind = "response"
        /\ c.sent[1].answer.status = 500
        /\ Len(c.sent[1].answer.body.text) > RankPreview
        /\ Shows(run, "error", c.val.v.err.v)

-----------------------------------------------------------------------------
(* C19, C20: what the pages make of a failed request *)

\* the answers the interaction r received that are responses with a status
\* other than 200
Refused(r) ==
    {r.reqs[n].answer : n \in {m \in DOMAIN r.reqs : /\ r.reqs[m].answer.kind = "response"
                                                     /\ r.reqs[m].answer.status # OK}}

\* no request of the interaction r was sent twice
NotReissued(r) ==
    \A n, m \in DOMAIN r.reqs :
        (r.reqs[n].url = r.reqs[m].url /\ r.reqs[n].value = r.reqs[m].value) => n = m

\* C19: every response with a status other than 200 is shown to the user as
\* an error that names the status, and its request is not sent again
C19_EveryRefusalIsReported ==
    /\ \A a \in Refused(run) :
            \E n \in DOMAIN run.msgs :
                run.msgs[n].level = "error" /\ Contains(run.msgs[n].text, IntText(a.status))
    /\ NotReissued(run)

\* the interaction r met a transport failure
Failed(r) == \E n \in DOMAIN r.reqs : r.reqs[n].answer.kind = "failure"

\* C20: a transport failure leaves the fetch without an exception, is shown
\* to the user as an error, and its request is not sent again
C20_TransportFailureIsLocal ==
    Failed(run)
        => /\ run.exc = NoExc
           /\ \A n \in DOMAIN run.calls : Returned(run.calls[n])
           /\ \E n \in DOMAIN run.msgs : run.msgs[n].level = "error"
           /\ NotReissued(run)

-----------------------------------------------------------------------------
(* C21: a 200 response whose body is no JSON *)

\* the calls of fetch_json in the interaction r for the listing at url
ListingCalls(r, url) == {c \in CallsOf(r, "fetch_json") : c.key.args[1] = url}

\* the listing call c returned a 200 whose body is no JSON
Garbled(c) == Returned(c) /\ c.val.v.code = OK /\ c.val.v.text.json = Undecodable

\* the listing call c returned a 200 that carries no data: no JSON, or {}
NoData(c) ==
    Returned(c) /\ c.val.v.code = OK /\ c.val.v.text.json \in {Undecodable, EmptyDict}

\* the call c was sent to the network and answered 200 with a body that is no JSON
SentGarbled(c) ==
    /\ ~c.hit
    /\ \E n \in DOMAIN c.sent :
            /\ c.sent[n].answer.kind = "response"
            /\ c.sent[n].answer.status = OK
            /\ c.sent[n].answer.body.json = Undecodable

-----------------------------------------------------------------------------
(* C22: the missing key *)

\* C22: a run of the live page or of the stats page without RAPIDAPI_KEY
\* shows the error about the key and nothing else, and calls and requests
\* nothing; and a run with the key ends without an exception
C22_OnlyAMissingKeyIsFatal ==
    (run.page \in {"live", "stats"} /\ ~run.pending)
        => IF ~Truthy(API_KEY)
           THEN /\ run.msgs \in {<<Msg("error", NO_KEY_LIVE)>>, <<Msg("error", NO_KEY_STATS)>>}
                /\ run.calls = <<>>
                /\ run.reqs = <<>>
           ELSE run.exc = NoExc

-----------------------------------------------------------------------------
(* C23: the path variants of the player search *)

\* the paths in the order of the claim
SearchPaths == <<SEARCH_PLAYER_PATH, SEARCH_STATS_PATH, SEARCH_V1_PATH, SEARCH_V2_PATH>>

\* the players mapped from the answer PLAYERS
KohliFound ==
    ListV(<<MapV([id |-> StrV(<<"1", "8">>), name |-> StrV(KOHLI), country |-> StrV(INDIA)])>>)

\* the answer holds a player; every other answer of SearchAnswers is a
\* transport failure, a refusal, a body that is no JSON, or a result that is
\* empty or holds no player with a name
Finds(a) == a = Response(OK, PLAYERS)

-----------------------------------------------------------------------------
(* C24: Delete Player among the statements of other sessions *)

\* the step that left e sent a statement of the kind verb
Issued(e, verb) == \E n \in DOMAIN e.stmts : e.stmts[n].verb = verb

\* C24: a DELETE is sent only for a name that is not blank, with the box
\* checked and after a lookup that returned exactly one row, and it removes
\* one row of the table at most, whatever the other sessions have inserted,
\* updated or deleted between the lookup and the DELETE
C24_DeleteRemovesAtMostOneRow ==
    (effect.act = "Delete Player" /\ Issued(effect, "DELETE"))
        => /\ Len(Strip(effect.name)) > 0
           /\ effect.confirm
           /\ Cardinality(effect.found) = 1
           /\ Cardinality(effect.changed) <= 1

-----------------------------------------------------------------------------
(* C25: Save Changes after Fetch for Edit *)

\* C25: the UPDATE of Save Changes alters the row that the session's Fetch
\* for Edit fetched and no other row of the table, whatever this and the
\* other sessions did in between; and a session holds an edit state exactly
\* from a Fetch for Edit that found one row until its next Save Changes that
\* sent the UPDATE
C25_SaveChangesAltersTheFetchedRow ==
    [][\A s \in Sessions :
        LET saved ==
                effect'.by = s /\ effect'.act = "Save Changes" /\ Issued(effect', "UPDATE")
            fetched ==
                /\ effect'.by = s /\ effect'.act = "Fetch for Edit"
                /\ Cardinality(effect'.found) = 1
        IN  /\ saved
                => /\ effect'.changed \subseteq {session[s].edit.row}
                   /\ Strip(effect'.name) # session[s].edit.row.full_name
                        => effect'.changed = {session[s].edit.row}
            /\ session'[s].edit # NoEdit
                <=> (fetched \/ (session[s].edit # NoEdit /\ ~saved))]_vars

-----------------------------------------------------------------------------
(* C26: the match selector *)

\* C26: when the user picks the option at a position of the selector, the
\* entry chosen is the entry of the flattened list at that position, and the
\* match id, series, format and details shown are those of that entry, also
\* when another entry of the list carries the same label
C26_DetailsAreThoseOfTheChoice ==
    choice # 0
        => /\ chosen = flat.v[choice]
           /\ snap = Snapshot(flat.v[choice])

====
